---- MODULE Spec2Model ----
(***************************************************************************)
(* Shopify PDP test runner: capability detection (capability-detector.ts), *)
(* test selection and the run loop of main (run-tests.ts).                 *)
(*                                                                         *)
(* Spec     the run of main(): usage check, browser setup, catalog load,   *)
(*          detection, selection, the execution loop, code generation.     *)
(* SelSpec  selectApplicableTests applied (repeatedly) to every bounded    *)
(*          catalog and every capability token array.                      *)
(***************************************************************************)
EXTENDS Integers, Sequences, FiniteSets, TLC

VARIABLES
    pc,            \* position of main()
    productUrl,    \* process.argv[2] || process.env.TEST_PRODUCT_URL ("" = neither)
    templates,     \* library.templates, the loaded catalog
    extraction,    \* outcome of the page.extract call of detectCapabilities
    extractCalls,  \* number of page.extract calls issued so far
    capabilities,  \* the string[] returned by detectCapabilities
    applicable,    \* the array returned by selectApplicableTests
    selectCalls,   \* number of invocations of selectApplicableTests
    loopIndex,     \* entries of applicable the for loop of main has taken
    results,       \* results: TestResult[] of main
    pages,         \* the page as each executeTest call saw it, in call order
    executeCalls,  \* number of executeTest calls
    browser,       \* the Stagehand session: "none", "open", "closed"
    clock,         \* the time new Date() gives
    scripts,       \* what each generatePlaywrightCode call returned or threw
    fatalCause,    \* why the process exited with code 1 ("none" = it has not)
    conversions    \* the convertSelector calls issued on their own: the
                   \* argument, the predicates it was written from, the return

vars == <<pc, productUrl, templates, extraction, extractCalls, capabilities,
          applicable, selectCalls, loopIndex, results, pages, executeCalls,
          browser, clock, scripts, fatalCause, conversions>>

----------------------------------------------------------------------------
(* Bounds *)

MaxTests == 2          \* longest catalog
MaxList == 2           \* longest productState list
MaxAdditional == 1     \* longest additionalStates list
MaxInvocations == 2    \* invocations of selectApplicableTests in SelSpec

----------------------------------------------------------------------------
(* Helpers on sequences *)

Range(s) == {s[i] : i \in 1..Len(s)}

SeqsUpTo(S, n) == UNION {[1..k -> S] : k \in 0..n}

\* Array.prototype.includes
Includes(arr, x) == \E i \in 1..Len(arr) : arr[i] = x

----------------------------------------------------------------------------
(* types.ts: TestCase.  productState is string | string[]; the tag keeps   *)
(* the two shapes (and the shape that is neither) apart.                   *)

PString(s) == [kind |-> "string", str |-> s, list |-> <<>>]
PArray(l) == [kind |-> "array", str |-> "", list |-> l]
POther == [kind |-> "other", str |-> "", list |-> <<>>]

TestCase(id, category, priority, productState) ==
    [id |-> id, name |-> "Check " \o id, description |-> "Checks " \o id,
     category |-> category, priority |-> priority,
     preconditions |-> [productState |-> productState]]

----------------------------------------------------------------------------
(* selectApplicableTests, run-tests.ts:24-47 *)

\* mutant of Every: Array.prototype.some (OR semantics)
RECURSIVE EverySome(_, _)
EverySome(required, detectedStates) ==
    IF required = <<>> THEN FALSE
    ELSE Includes(detectedStates, Head(required))
         \/ EverySome(Tail(required), detectedStates)

\* required.every(state => detectedStates.includes(state))
RECURSIVE Every(_, _)
Every(required, detectedStates) ==
    IF required = <<>> THEN TRUE
    ELSE Includes(detectedStates, Head(required))
         /\ Every(Tail(required), detectedStates)

\* mutant of SingleState: the negated membership test
SingleStateNegated(required, detectedStates) ==
    ~Includes(detectedStates, required)

\* detectedStates.includes(required), the single state requirement
SingleState(required, detectedStates) ==
    Includes(detectedStates, required)

\* mutant of Matches: no sentinel branch, 'any' is looked up like any token
MatchesNoSentinel(test, detectedStates) ==
    LET required == test.preconditions.productState IN
    IF required.kind = "string" THEN SingleState(required.str, detectedStates)
    ELSE IF required.kind = "array" THEN Every(required.list, detectedStates)
    ELSE FALSE

\* the callback of tests.filter
Matches(test, detectedStates) ==
    LET required == test.preconditions.productState IN
    IF required.kind = "string" /\ required.str = "any" THEN TRUE
    ELSE IF required.kind = "string" THEN SingleState(required.str, detectedStates)
    ELSE IF required.kind = "array" THEN Every(required.list, detectedStates)
    ELSE FALSE

RECURSIVE Filter(_, _)
Filter(tests, detectedStates) ==
    IF tests = <<>> THEN <<>>
    ELSE (IF Matches(Head(tests), detectedStates) THEN <<Head(tests)>> ELSE <<>>)
         \o Filter(Tail(tests), detectedStates)

\* mutant of selectApplicableTests: the selection re-sorted by priority
selectApplicableTestsByPriority(tests, detectedStates) ==
    LET kept == Filter(tests, detectedStates) IN
    SelectSeq(kept, LAMBDA t : t.priority = "P0")
    \o SelectSeq(kept, LAMBDA t : t.priority # "P0")

selectApplicableTests(tests, detectedStates) ==
    Filter(tests, detectedStates)

----------------------------------------------------------------------------
(* detectCapabilities, capability-detector.ts:113-199 *)

\* free-form strings the AI may put in additionalStates (z.array(z.string()))
AdditionalVocab == {"pre_order", "in_stock", "out_of_stock"}

\* the object that passes CapabilitySchema; hasAdditional = FALSE is the
\* optional additionalStates left out
DetectedCapabilities ==
    [inStock : BOOLEAN, hasVariants : BOOLEAN, onSale : BOOLEAN,
     hasSubscription : BOOLEAN, hasMultipleImages : BOOLEAN,
     hasAdditional : {TRUE},
     additionalStates : SeqsUpTo(AdditionalVocab, MaxAdditional)]
    \cup
    [inStock : BOOLEAN, hasVariants : BOOLEAN, onSale : BOOLEAN,
     hasSubscription : BOOLEAN, hasMultipleImages : BOOLEAN,
     hasAdditional : {FALSE}, additionalStates : {<<>>}]

NoResult ==
    [inStock |-> FALSE, hasVariants |-> FALSE, onSale |-> FALSE,
     hasSubscription |-> FALSE, hasMultipleImages |-> FALSE,
     hasAdditional |-> FALSE, additionalStates |-> <<>>]

\* what "await page.extract(...)" does: resolve with a result, or reject
ExtractFaults == {"timeout", "malformed", "network"}

ExtractOutcomes ==
    {[fault |-> "none", result |-> r] : r \in DetectedCapabilities}
    \cup {[fault |-> f, result |-> NoResult] : f \in ExtractFaults}

\* no extract call issued yet
NoExtraction == [fault |-> "pending", result |-> NoResult]

\* mutant of StatesOf: 'any' is not pushed
StatesOfNoAny(result) ==
    (IF result.inStock THEN <<"in_stock">> ELSE <<"out_of_stock">>)
    \o (IF result.hasVariants THEN <<"has_variants">> ELSE <<>>)
    \o (IF result.onSale THEN <<"on_sale">> ELSE <<>>)
    \o (IF result.hasSubscription THEN <<"has_subscription">> ELSE <<>>)
    \o (IF result.hasMultipleImages THEN <<"multiple_images">> ELSE <<>>)
    \o (IF result.hasAdditional /\ Len(result.additionalStates) > 0
        THEN result.additionalStates ELSE <<>>)

\* mutant of StatesOf: the else branch of the inventory status is missing
StatesOfNoElse(result) ==
    (IF result.inStock THEN <<"in_stock">> ELSE <<>>)
    \o (IF result.hasVariants THEN <<"has_variants">> ELSE <<>>)
    \o (IF result.onSale THEN <<"on_sale">> ELSE <<>>)
    \o (IF result.hasSubscription THEN <<"has_subscription">> ELSE <<>>)
    \o (IF result.hasMultipleImages THEN <<"multiple_images">> ELSE <<>>)
    \o (IF result.hasAdditional /\ Len(result.additionalStates) > 0
        THEN result.additionalStates ELSE <<>>)
    \o <<"any">>

\* the try body after the extract call: the pushes onto states, in order
StatesOf(result) ==
    (IF result.inStock THEN <<"in_stock">> ELSE <<"out_of_stock">>)
    \o (IF result.hasVariants THEN <<"has_variants">> ELSE <<>>)
    \o (IF result.onSale THEN <<"on_sale">> ELSE <<>>)
    \o (IF result.hasSubscription THEN <<"has_subscription">> ELSE <<>>)
    \o (IF result.hasMultipleImages THEN <<"multiple_images">> ELSE <<>>)
    \o (IF result.hasAdditional /\ Len(result.additionalStates) > 0
        THEN result.additionalStates ELSE <<>>)
    \o <<"any">>

\* mutant of detectCapabilities: no catch, the fault of the call propagates
detectCapabilitiesNoCatch(outcome) ==
    IF outcome.fault = "none"
    THEN [thrown |-> FALSE, states |-> StatesOf(outcome.result)]
    ELSE [thrown |-> TRUE, states |-> <<>>]

\* thrown = the promise rejects; states = the array it resolves with
detectCapabilities(outcome) ==
    IF outcome.fault = "none"
    THEN [thrown |-> FALSE, states |-> StatesOf(outcome.result)]
    ELSE [thrown |-> FALSE, states |-> <<"any">>]

----------------------------------------------------------------------------
(* types.ts: ExecutionStep and TestResult.  An optional field is a record *)
(* that says whether it is present; the timestamp of a step is left out,  *)
(* no operation reads it.                                                  *)

Absent == [present |-> FALSE, value |-> ""]
Some(v) == [present |-> TRUE, value |-> v]

\* result?: any, with the shapes the executor stores
RUndefined ==
    [kind |-> "undefined", bool |-> FALSE, num |-> 0,
     isVisible |-> FALSE, isEnabled |-> FALSE]
RBool(b) ==
    [kind |-> "boolean", bool |-> b, num |-> 0,
     isVisible |-> FALSE, isEnabled |-> FALSE]
RNum(n) ==
    [kind |-> "number", bool |-> FALSE, num |-> n,
     isVisible |-> FALSE, isEnabled |-> FALSE]
RObject(v, e) ==
    [kind |-> "object", bool |-> FALSE, num |-> 0,
     isVisible |-> v, isEnabled |-> e]

ExecutionStep(action, instruction, selector, result) ==
    [action |-> action, instruction |-> instruction, selector |-> selector,
     result |-> result]

\* String.prototype.includes
StrIncludes(s, needle) ==
    \E i \in 1..(Len(s) - Len(needle) + 1) :
        SubSeq(s, i, i + Len(needle) - 1) = needle

----------------------------------------------------------------------------
(* The page as one test sees it, run-tests.ts:99-522 *)

MaxVisible == 2        \* candidates of one list that are visible at once
MaxElapsed == 1        \* Date.now() - startTime

\* a thrown value: an Error (name, message) or a thrown string; assertion
\* records that expect() threw it and is read by no operation
Thrown(assertion, isError, name, message) ==
    [assertion |-> assertion, isError |-> isError, name |-> name,
     message |-> message]

NoFault == Thrown(FALSE, FALSE, "", "")

\* what a page call can reject with
PageFaults ==
    {Thrown(FALSE, TRUE, "TimeoutError", "locator.click: Timeout 30000ms exceeded."),
     Thrown(FALSE, TRUE, "SyntaxError", "Unexpected end of JSON input"),
     Thrown(FALSE, TRUE, "Error", ""),
     Thrown(FALSE, FALSE, "", "Target closed")}

\* what expect(...).matcher throws on a mismatch
ExpectFault(matcher) ==
    Thrown(TRUE, TRUE, "Error", "expect(received)." \o matcher)

titleSelectors ==
    <<"h1", "[data-product-title]", ".product-title", ".product__title",
      "h1[class*=\"title\"]", "h1[class*=\"product\"]">>

descriptionSelectors ==
    <<".product-description", "[class*=\"description\"]",
      "[class*=\"detail\"]", ".product__description", "[data-description]",
      "div[class*=\"product\"] p", ".rte">>

\* the fourteenth candidate holds a currency sign outside ASCII in the
\* source; INR stands for it
priceSelectors ==
    <<".product-price", "[data-product-price]", ".price__regular",
      ".price--main", ".price__sale", ".price-item--sale", "span.price",
      "span[class*=\"price\"]:not([class*=\"compare\"]):not([class*=\"was\"])",
      "[class*=\"current-price\"]", "[class*=\"sale-price\"]",
      "[class*=\"selling-price\"]", ".product__price",
      ".product-form__price", "span:has-text(\"INR\")",
      "span:has-text(\"$\")", "div[class*=\"price\"]">>

compareSelectors ==
    <<".compare-at-price", "[class*=\"compare-price\"]",
      "[class*=\"original-price\"]", "[class*=\"was-price\"]",
      ".price__compare", ".price--compare", "s[class*=\"price\"]",
      "del[class*=\"price\"]", "[class*=\"regular-price\"]">>

variantSelectors ==
    <<"select[name*=\"variant\"]", ".product-form__input",
      "[class*=\"variant-select\"]", "[class*=\"variant-selector\"]",
      "[class*=\"variant\"] button",
      "[class*=\"variant\"] input[type=\"radio\"]", ".variant-options",
      "fieldset[class*=\"variant\"]", "[data-variant-selector]">>

cartSelectors ==
    <<"[href*=\"cart\"] .cart-count-bubble:visible",
      "[href*=\"/cart\"] [class*=\"count\"]:visible", ".cart__count:visible",
      ".cart-link__bubble:visible", "[data-cart-count]:visible",
      "a[href*=\"cart\"]:visible">>

imageSelectors ==
    <<".product__media img", "[data-product-image]", ".product-image",
      "[class*=\"product-image\"]", ".product__main-image",
      ".featured-image img", "[role=\"img\"]", "img[src*=\"product\"]">>

KnownCategories ==
    {"core-product-info", "pricing", "variant-selection", "add-to-cart",
     "product-media"}

\* the candidate list the check of this entry walks, <<>> if it walks none
CandidatesOf(test) ==
    IF test.category = "core-product-info" /\ test.id = "pdp-title-visible"
    THEN titleSelectors
    ELSE IF test.category = "core-product-info"
            /\ test.id = "pdp-description-visible"
    THEN descriptionSelectors
    ELSE IF test.category = "pricing" /\ test.id = "pdp-price-visible"
    THEN priceSelectors
    ELSE IF test.category = "pricing"
            /\ test.id = "pdp-compare-at-price-visible"
    THEN compareSelectors
    ELSE IF test.category = "variant-selection"
            /\ test.id = "pdp-variant-selector-visible"
    THEN variantSelectors
    ELSE IF test.category = "add-to-cart" /\ test.id = "pdp-atc-works"
    THEN cartSelectors
    ELSE IF test.category = "product-media"
            /\ test.id = "pdp-main-image-visible"
    THEN imageSelectors
    ELSE <<>>

\* texts element.textContent() may give
Texts == {"", "Blue Shirt", "$1,299", "$ 5"}

\* visible   the selectors that match an element that is visible
\* text      textContent of the element found
\* count     elements matched by the first locator counted
\* fallback  elements matched by the fallback locator
\* isVisible, isEnabled   of the add to cart button, or of body
\* faultAt   0: no page call rejects; k: one does after k - 1 steps were pushed
\* fault     what it rejects with
\* elapsed   time the dispatch took
Page(visible, text, count, fallback, isVisible, isEnabled, faultAt, fault, elapsed) ==
    [visible |-> visible, text |-> text, count |-> count,
     fallback |-> fallback, isVisible |-> isVisible, isEnabled |-> isEnabled,
     faultAt |-> faultAt, fault |-> fault, elapsed |-> elapsed]

----------------------------------------------------------------------------
(* The category procedures, run-tests.ts:99-522.  A procedure is the      *)
(* sequence of its operations on this page: page calls that may reject,   *)
(* log.push, expect.                                                       *)

NoStep == ExecutionStep("", Absent, Absent, RUndefined)

\* the page calls made while k - 1 steps are in the log
Await(k) == [op |-> "await", phase |-> k, step |-> NoStep, ok |-> TRUE,
             matcher |-> ""]
Push(step) == [op |-> "push", phase |-> 0, step |-> step, ok |-> TRUE,
               matcher |-> ""]
Expect(ok, matcher) == [op |-> "expect", phase |-> 0, step |-> NoStep,
                        ok |-> ok, matcher |-> matcher]

\* the for loop over the candidates: the first one in list order that
\* matches a visible element, '' when there is none
RECURSIVE FirstVisible(_, _)
FirstVisible(selectors, visible) ==
    IF selectors = <<>> THEN ""
    ELSE IF Head(selectors) \in visible THEN Head(selectors)
    ELSE FirstVisible(Tail(selectors), visible)

\* mutant: the fallback selector is recorded whatever was found
OrElseFallbackOnly(foundSelector, fallback) == fallback

\* foundSelector || fallback
OrElse(foundSelector, fallback) ==
    IF foundSelector # "" THEN foundSelector ELSE fallback

IsDigitOrComma(c) ==
    c \in {"0", "1", "2", "3", "4", "5", "6", "7", "8", "9", ","}

IsSpace(c) == c \in {" "}

\* the characters of the class [...] of the price pattern that can be
\* written here: the others lie outside ASCII and occur in no text of Texts
CurrencySymbols == {"$"}

\* /[symbols]\s*[\d,]+/ matched at the symbol at position i, the spaces
\* after it ending before position j
RECURSIVE DigitsAfterSpaces(_, _)
DigitsAfterSpaces(s, j) ==
    IF j > Len(s) THEN FALSE
    ELSE IF IsDigitOrComma(SubSeq(s, j, j)) THEN TRUE
    ELSE IF IsSpace(SubSeq(s, j, j)) THEN DigitsAfterSpaces(s, j + 1)
    ELSE FALSE

\* expect(priceText).toMatch(/[symbols]\s*[\d,]+/)
MatchesPrice(s) ==
    \E i \in 1..Len(s) :
        SubSeq(s, i, i) \in CurrencySymbols /\ DigitsAfterSpaces(s, i + 1)

testCoreInfo(test, page) ==
    IF test.id = "pdp-title-visible" THEN
        LET foundSelector == FirstVisible(titleSelectors, page.visible)
            isVisible == foundSelector # ""
        IN <<Await(1)>>
           \o (IF isVisible THEN <<Expect(page.text # "", "toBeTruthy()")>>
               ELSE <<>>)
           \o <<Push(ExecutionStep("assert", Absent,
                                   Some(OrElse(foundSelector, "h1")),
                                   RBool(isVisible))),
                Expect(isVisible, "toBe(expected)")>>
    ELSE IF test.id = "pdp-description-visible" THEN
        LET foundSelector == FirstVisible(descriptionSelectors, page.visible)
            isVisible == foundSelector # ""
        IN <<Await(1),
             Push(ExecutionStep("observe", Some("find product description"),
                                Some(OrElse(foundSelector,
                                            ".product-description")),
                                RBool(isVisible))),
             Expect(isVisible, "toBe(expected)")>>
    ELSE <<>>

testPricing(test, page) ==
    IF test.id = "pdp-price-visible" THEN
        LET foundSelector == FirstVisible(priceSelectors, page.visible)
            isVisible == foundSelector # ""
            priceText == IF isVisible THEN page.text ELSE ""
        IN <<Await(1),
             Push(ExecutionStep("assert", Absent,
                                Some(OrElse(foundSelector,
                                            "[class*=\"price\"]")),
                                RBool(isVisible))),
             Expect(isVisible, "toBe(expected)"),
             Expect(MatchesPrice(priceText), "toMatch(expected)")>>
    ELSE IF test.id = "pdp-compare-at-price-visible" THEN
        LET foundSelector == FirstVisible(compareSelectors, page.visible)
            isVisible == foundSelector # ""
        IN <<Await(1),
             Push(ExecutionStep("assert", Absent,
                                Some(OrElse(foundSelector,
                                            "[class*=\"compare\"]")),
                                RBool(isVisible))),
             Expect(isVisible, "toBe(expected)")>>
    ELSE <<>>

\* mutant: the selector check asserts before it records its step
testVariantsAssertFirst(test, page) ==
    IF test.id = "pdp-variant-selector-visible" THEN
        LET foundSelector == FirstVisible(variantSelectors, page.visible)
            isVisible == foundSelector # ""
        IN <<Await(1),
             Expect(isVisible, "toBe(expected)"),
             Push(ExecutionStep("observe", Some("find variant selector"),
                                Some(OrElse(foundSelector,
                                            "select[name*=\"variant\"]")),
                                RBool(isVisible)))>>
    ELSE IF test.id = "pdp-variant-selection-works" THEN
        <<Await(1)>>
        \o (IF page.count > 1
            THEN <<Push(ExecutionStep("act", Some("select variant option"),
                                      Some("select[name*=\"variant\"]"),
                                      RUndefined))>>
            ELSE <<>>)
    ELSE <<>>

testVariants(test, page) ==
    IF test.id = "pdp-variant-selector-visible" THEN
        LET foundSelector == FirstVisible(variantSelectors, page.visible)
            isVisible == foundSelector # ""
        IN <<Await(1),
             Push(ExecutionStep("observe", Some("find variant selector"),
                                Some(OrElse(foundSelector,
                                            "select[name*=\"variant\"]")),
                                RBool(isVisible))),
             Expect(isVisible, "toBe(expected)")>>
    ELSE IF test.id = "pdp-variant-selection-works" THEN
        <<Await(1)>>
        \o (IF page.count > 1
            THEN <<Push(ExecutionStep("act", Some("select variant option"),
                                      Some("select[name*=\"variant\"]"),
                                      RUndefined))>>
            ELSE <<>>)
    ELSE <<>>

testAddToCart(test, page) ==
    IF test.id = "pdp-atc-button-visible-and-enabled" THEN
        LET count == IF page.count = 0 THEN page.fallback ELSE page.count
        IN <<Await(1),
             Push(ExecutionStep("observe", Some("find add to cart button"),
                                Absent, RBool(count > 0))),
             Expect(count > 0, "toBeGreaterThan(expected)"),
             Await(2),
             Push(ExecutionStep("assert", Absent, Absent,
                                RObject(page.isVisible, page.isEnabled))),
             Expect(page.isVisible, "toBe(expected)"),
             Expect(page.isEnabled, "toBe(expected)")>>
    ELSE IF test.id = "pdp-atc-works" THEN
        LET foundSelector == FirstVisible(cartSelectors, page.visible)
            foundCart == foundSelector # ""
        IN <<Await(1),
             Push(ExecutionStep("act", Some("click add to cart"), Absent,
                                RUndefined)),
             Await(2),
             Push(ExecutionStep("assert", Absent,
                                Some(OrElse(foundSelector,
                                            "[href*=\"cart\"]:visible")),
                                RBool(foundCart)))>>
    ELSE <<>>

testProductMedia(test, page) ==
    IF test.id = "pdp-main-image-visible" THEN
        LET foundSelector == FirstVisible(imageSelectors, page.visible)
            isVisible == foundSelector # ""
        IN <<Await(1),
             Push(ExecutionStep("assert", Absent,
                                Some(OrElse(foundSelector,
                                            ".product__media img")),
                                RBool(isVisible))),
             Expect(isVisible, "toBe(expected)")>>
    ELSE IF test.id = "pdp-image-gallery-works" THEN
        <<Await(1),
          Push(ExecutionStep("observe", Some("find image thumbnails"),
                             Absent, RNum(page.count))),
          Expect(page.count > 1, "toBeGreaterThan(expected)")>>
    ELSE <<>>

testGeneric(test, page) ==
    <<Await(1),
      Push(ExecutionStep("assert", Some("generic test: " \o test.name),
                         Absent, RBool(page.isVisible))),
      Expect(page.isVisible, "toBe(expected)")>>

\* mutant: a category without a procedure runs nothing
DispatchNoGeneric(test, page) ==
    IF test.category = "core-product-info" THEN testCoreInfo(test, page)
    ELSE IF test.category = "pricing" THEN testPricing(test, page)
    ELSE IF test.category = "variant-selection" THEN testVariants(test, page)
    ELSE IF test.category = "add-to-cart" THEN testAddToCart(test, page)
    ELSE IF test.category = "product-media" THEN testProductMedia(test, page)
    ELSE <<>>

\* the if / else if chain on test.category
Dispatch(test, page) ==
    IF test.category = "core-product-info" THEN testCoreInfo(test, page)
    ELSE IF test.category = "pricing" THEN testPricing(test, page)
    ELSE IF test.category = "variant-selection" THEN testVariants(test, page)
    ELSE IF test.category = "add-to-cart" THEN testAddToCart(test, page)
    ELSE IF test.category = "product-media" THEN testProductMedia(test, page)
    ELSE testGeneric(test, page)

\* the operations run in order on the shared log until one throws
RECURSIVE Run(_, _, _)
Run(ops, page, log) ==
    IF ops = <<>> THEN [thrown |-> FALSE, fault |-> NoFault, log |-> log]
    ELSE LET o == Head(ops) IN
         IF o.op = "await" /\ page.faultAt = o.phase
         THEN [thrown |-> TRUE, fault |-> page.fault, log |-> log]
         ELSE IF o.op = "expect" /\ ~o.ok
         THEN [thrown |-> TRUE, fault |-> ExpectFault(o.matcher), log |-> log]
         ELSE IF o.op = "push"
         THEN Run(Tail(ops), page, Append(log, o.step))
         ELSE Run(Tail(ops), page, log)

----------------------------------------------------------------------------
(* executeTest, run-tests.ts:52-94 *)

\* String(error)
StringOf(fault) ==
    IF ~fault.isError THEN fault.message
    ELSE IF fault.message = "" THEN fault.name
    ELSE fault.name \o ": " \o fault.message

\* error.message?.includes('expect') ? 'fail' : 'error'
StatusOf(fault) ==
    IF fault.isError /\ StrIncludes(fault.message, "expect")
    THEN "fail" ELSE "error"

\* mutant of TestResult: the error field is set when the fault has a message
TestResultErrorIfMessage(test, run, duration) ==
    IF ~run.thrown
    THEN [testId |-> test.id, status |-> "pass", duration |-> duration,
          error |-> Absent, executionLog |-> run.log]
    ELSE [testId |-> test.id, status |-> StatusOf(run.fault),
          duration |-> duration,
          error |-> IF run.fault.isError /\ run.fault.message # ""
                    THEN Some(run.fault.message) ELSE Absent,
          executionLog |-> run.log]

\* mutant of TestResult: the catch returns an empty executionLog
TestResultDropsLog(test, run, duration) ==
    IF ~run.thrown
    THEN [testId |-> test.id, status |-> "pass", duration |-> duration,
          error |-> Absent, executionLog |-> run.log]
    ELSE [testId |-> test.id, status |-> StatusOf(run.fault),
          duration |-> duration,
          error |-> Some(IF run.fault.isError /\ run.fault.message # ""
                         THEN run.fault.message ELSE StringOf(run.fault)),
          executionLog |-> <<>>]

\* the two return statements of executeTest
TestResult(test, run, duration) ==
    IF ~run.thrown
    THEN [testId |-> test.id, status |-> "pass", duration |-> duration,
          error |-> Absent, executionLog |-> run.log]
    ELSE [testId |-> test.id, status |-> StatusOf(run.fault),
          duration |-> duration,
          error |-> Some(IF run.fault.isError /\ run.fault.message # ""
                         THEN run.fault.message ELSE StringOf(run.fault)),
          executionLog |-> run.log]

executeTest(test, page) ==
    TestResult(test, Run(Dispatch(test, page), page, <<>>), page.elapsed)

----------------------------------------------------------------------------
(* The pages a test is executed on *)

MaxCandidates == 3     \* candidates of one list that may be visible at all
MaxCount == 2          \* elements a locator matches

\* the entries whose check reads the text of the element found
ReadsText(test) ==
    \/ test.category = "core-product-info" /\ test.id = "pdp-title-visible"
    \/ test.category = "pricing" /\ test.id = "pdp-price-visible"

\* the entries whose check counts the elements of a locator
ReadsCount(test) ==
    \/ test.category = "variant-selection"
       /\ test.id = "pdp-variant-selection-works"
    \/ test.category = "add-to-cart"
       /\ test.id = "pdp-atc-button-visible-and-enabled"
    \/ test.category = "product-media" /\ test.id = "pdp-image-gallery-works"

\* the entries whose check reads isVisible() and isEnabled()
ReadsFlags(test) ==
    \/ test.category = "add-to-cart"
       /\ test.id = "pdp-atc-button-visible-and-enabled"
    \/ test.category \notin KnownCategories

\* the number of await points of the procedure
Phases(test) ==
    IF test.category = "add-to-cart"
       /\ test.id \in {"pdp-atc-button-visible-and-enabled", "pdp-atc-works"}
    THEN 2
    ELSE IF Dispatch(test, Page({}, "", 0, 0, TRUE, TRUE, 0, NoFault, 0)) = <<>>
    THEN 0 ELSE 1

VisibleSets(test, full) ==
    LET cands == CandidatesOf(test)
        pool == {cands[i] : i \in 1..(IF Len(cands) < MaxCandidates
                                      THEN Len(cands) ELSE MaxCandidates)}
    IN IF cands = <<>> THEN {{}}
       ELSE IF full THEN {v \in SUBSET pool : Cardinality(v) <= MaxVisible}
       ELSE {{}, {cands[1]}}

\* every page within the bounds; a field the check of the entry does not
\* read keeps one value
AllPages(test) ==
    {Page(v, t, c, f, b[1], b[2], a[1], a[2], e) :
        v \in VisibleSets(test, TRUE),
        t \in (IF ReadsText(test) THEN Texts ELSE {"$1,299"}),
        c \in (IF ReadsCount(test) THEN 0..MaxCount ELSE {0}),
        f \in (IF test.id = "pdp-atc-button-visible-and-enabled"
               THEN 0..1 ELSE {0}),
        b \in (IF ReadsFlags(test) THEN BOOLEAN \X BOOLEAN
               ELSE {<<TRUE, TRUE>>}),
        a \in {<<0, NoFault>>} \cup ((1..Phases(test)) \X PageFaults),
        e \in 0..MaxElapsed}

\* three pages per entry: nothing found, the first candidate found, and a
\* page whose first call times out
SomePages(test) ==
    {Page(v, "$1,299", IF v = {} THEN 0 ELSE 2, 0, TRUE, TRUE, 0, NoFault, 0) :
        v \in VisibleSets(test, FALSE)}
    \cup {Page({}, "$1,299", 0, 0, TRUE, TRUE, k, x, 0) :
            k \in {1} \cap (1..Phases(test)),
            x \in {y \in PageFaults : y.name = "TimeoutError"}}

\* full: every page within the bounds; otherwise a few pages per entry
PagesFor(test, full) == IF full THEN AllPages(test) ELSE SomePages(test)

\* one call await executeTest(stagehand, page, test) and results.push(result)
CallExecute(test, page) ==
    /\ results' = Append(results, executeTest(test, page))
    /\ pages' = Append(pages, page)
    /\ executeCalls' = executeCalls + 1

----------------------------------------------------------------------------
(* code-generator.ts (run-tests.ts:634-793): strings *)

StartsWith(s, prefix) ==
    Len(s) >= Len(prefix) /\ SubSeq(s, 1, Len(prefix)) = prefix

CharAt(s, i) == SubSeq(s, i, i)

UpperCase == "ABCDEFGHIJKLMNOPQRSTUVWXYZ"
LowerCase == "abcdefghijklmnopqrstuvwxyz"

\* the lower case letter of each upper case letter
LowerOf ==
    [c \in {CharAt(UpperCase, k) : k \in 1..26} |->
        CharAt(LowerCase, CHOOSE k \in 1..26 : CharAt(UpperCase, k) = c)]

LowerChar(c) == IF c \in DOMAIN LowerOf THEN LowerOf[c] ELSE c

\* String.prototype.toLowerCase
RECURSIVE toLowerCase(_)
toLowerCase(s) ==
    IF s = "" THEN ""
    ELSE LowerChar(CharAt(s, 1)) \o toLowerCase(SubSeq(s, 2, Len(s)))

\* selector.replace(/'/g, "\\'").replace(/"/g, '\\"')
RECURSIVE escapeSelector(_)
escapeSelector(selector) ==
    IF selector = "" THEN ""
    ELSE LET c == CharAt(selector, 1) IN
         (IF c = "'" THEN "\\'" ELSE IF c = "\"" THEN "\\\"" ELSE c)
         \o escapeSelector(SubSeq(selector, 2, Len(selector)))

IsQuote(c) == c \in {"'", "\""}

\* position of the first quote at or after j, 0 if there is none
RECURSIVE NextQuote(_, _)
NextQuote(s, j) ==
    IF j > Len(s) THEN 0
    ELSE IF IsQuote(CharAt(s, j)) THEN j
    ELSE NextQuote(s, j + 1)

\* /\[@attr=['"]([^'"]+)['"]\]/ tried at position i: '[@attr=', a quote,
\* one or more characters that are no quote, a quote, ']'
AttrMatchAt(s, attr, i) ==
    LET open == "[@" \o attr \o "="
        q == i + Len(open)
        close == NextQuote(s, q + 1)
    IN IF /\ q <= Len(s)
          /\ SubSeq(s, i, q - 1) = open
          /\ IsQuote(CharAt(s, q))
          /\ close > q + 1
          /\ close < Len(s)
          /\ CharAt(s, close + 1) = "]"
       THEN [found |-> TRUE, group |-> SubSeq(s, q + 1, close - 1)]
       ELSE [found |-> FALSE, group |-> ""]

\* xpath.match(...): the leftmost position at which the pattern matches
RECURSIVE AttrMatchFrom(_, _, _)
AttrMatchFrom(s, attr, i) ==
    IF i > Len(s) THEN [found |-> FALSE, group |-> ""]
    ELSE IF AttrMatchAt(s, attr, i).found THEN AttrMatchAt(s, attr, i)
    ELSE AttrMatchFrom(s, attr, i + 1)

AttrMatch(s, attr) == AttrMatchFrom(s, attr, 1)

\* classMatch[1].split(' ')[0]
RECURSIVE FirstToken(_)
FirstToken(s) ==
    IF s = "" \/ CharAt(s, 1) = " " THEN ""
    ELSE CharAt(s, 1) \o FirstToken(SubSeq(s, 2, Len(s)))

\* mutant: no pass-through for selectors in structural form
convertSelectorPathOnly(aiSelector) ==
    LET xpath == IF StartsWith(aiSelector, "xpath=")
                 THEN SubSeq(aiSelector, 7, Len(aiSelector))
                 ELSE aiSelector
        dataTestIdMatch == AttrMatch(xpath, "data-testid")
        classMatch == AttrMatch(xpath, "class")
        idMatch == AttrMatch(xpath, "id")
    IN IF dataTestIdMatch.found
       THEN "[data-testid=\"" \o dataTestIdMatch.group \o "\"]"
       ELSE IF classMatch.found
       THEN "." \o FirstToken(classMatch.group)
       ELSE IF idMatch.found
       THEN "#" \o idMatch.group
       ELSE escapeSelector(xpath) \o "\" /* TODO: Convert XPath to CSS */"

\* mutant: a path no pattern matches is returned without escaping
convertSelectorRawFallback(aiSelector) ==
    IF ~StartsWith(aiSelector, "//") /\ ~StartsWith(aiSelector, "xpath=")
    THEN escapeSelector(aiSelector)
    ELSE LET xpath == IF StartsWith(aiSelector, "xpath=")
                      THEN SubSeq(aiSelector, 7, Len(aiSelector))
                      ELSE aiSelector
             dataTestIdMatch == AttrMatch(xpath, "data-testid")
             classMatch == AttrMatch(xpath, "class")
             idMatch == AttrMatch(xpath, "id")
         IN IF dataTestIdMatch.found
            THEN "[data-testid=\"" \o dataTestIdMatch.group \o "\"]"
            ELSE IF classMatch.found
            THEN "." \o FirstToken(classMatch.group)
            ELSE IF idMatch.found
            THEN "#" \o idMatch.group
            ELSE xpath \o "\" /* TODO: Convert XPath to CSS */"

convertSelector(aiSelector) ==
    IF ~StartsWith(aiSelector, "//") /\ ~StartsWith(aiSelector, "xpath=")
    THEN escapeSelector(aiSelector)
    ELSE LET xpath == IF StartsWith(aiSelector, "xpath=")
                      THEN SubSeq(aiSelector, 7, Len(aiSelector))
                      ELSE aiSelector
             dataTestIdMatch == AttrMatch(xpath, "data-testid")
             classMatch == AttrMatch(xpath, "class")
             idMatch == AttrMatch(xpath, "id")
         IN IF dataTestIdMatch.found
            THEN "[data-testid=\"" \o dataTestIdMatch.group \o "\"]"
            ELSE IF classMatch.found
            THEN "." \o FirstToken(classMatch.group)
            ELSE IF idMatch.found
            THEN "#" \o idMatch.group
            ELSE escapeSelector(xpath) \o "\" /* TODO: Convert XPath to CSS */"

----------------------------------------------------------------------------
(* generateTestCase, run-tests.ts:690-736.  The text is kept as the      *)
(* sequence of its lines; every piece appended ends a line.               *)

JSONBool(b) == IF b THEN "true" ELSE "false"

\* JSON.stringify(step.result)
JSONStringify(result) ==
    IF result.kind = "boolean" THEN JSONBool(result.bool)
    ELSE IF result.kind = "number" THEN ToString(result.num)
    ELSE IF result.kind = "object"
    THEN "{\"isVisible\":" \o JSONBool(result.isVisible)
         \o ",\"isEnabled\":" \o JSONBool(result.isEnabled) \o "}"
    ELSE "undefined"

\* if (step.result)
Truthy(result) ==
    \/ result.kind = "boolean" /\ result.bool
    \/ result.kind = "number" /\ result.num # 0
    \/ result.kind = "object"

\* if (step.selector)
HasSelector(step) == step.selector.present /\ step.selector.value # ""

\* ${step.instruction}
InstructionText(step) ==
    IF step.instruction.present THEN step.instruction.value ELSE "undefined"

\* mutant: an assert step without a selector asserts its recorded result
StepLinesAssertsResult(step) ==
    IF step.action = "observe" /\ HasSelector(step) THEN
        <<"    // Found via AI: " \o InstructionText(step),
          "    const element = page.locator('"
              \o convertSelector(step.selector.value) \o "');",
          "    await expect(element).toBeVisible();",
          "">>
    ELSE IF step.action = "act" THEN
        IF step.instruction.present
           /\ StrIncludes(toLowerCase(step.instruction.value), "click")
        THEN IF StrIncludes(toLowerCase(step.instruction.value), "add to cart")
             THEN <<"    // Click add to cart button",
                    "    await page.getByRole('button', { name: /add to cart/i }).click();",
                    "">>
             ELSE IF HasSelector(step)
             THEN <<"    // " \o step.instruction.value,
                    "    await page.locator('"
                        \o convertSelector(step.selector.value)
                        \o "').click();",
                    "">>
             ELSE <<>>
        ELSE <<>>
    ELSE IF step.action = "extract" THEN
        <<"    // Data extraction: " \o InstructionText(step)>>
        \o (IF Truthy(step.result)
            THEN <<"    // Expected result: " \o JSONStringify(step.result),
                   "">>
            ELSE <<>>)
    ELSE IF step.action = "assert" THEN
        IF HasSelector(step)
        THEN <<"    await expect(page.locator('"
                   \o convertSelector(step.selector.value)
                   \o "')).toBeVisible();",
               "">>
        ELSE IF step.result.kind # "undefined"
        THEN <<"    expect(" \o JSONStringify(step.result) \o ").toBeTruthy();",
               "">>
        ELSE <<>>
    ELSE <<>>

\* the lines one step of the execution log turns into
StepLines(step) ==
    IF step.action = "observe" /\ HasSelector(step) THEN
        <<"    // Found via AI: " \o InstructionText(step),
          "    const element = page.locator('"
              \o convertSelector(step.selector.value) \o "');",
          "    await expect(element).toBeVisible();",
          "">>
    ELSE IF step.action = "act" THEN
        IF step.instruction.present
           /\ StrIncludes(toLowerCase(step.instruction.value), "click")
        THEN IF StrIncludes(toLowerCase(step.instruction.value), "add to cart")
             THEN <<"    // Click add to cart button",
                    "    await page.getByRole('button', { name: /add to cart/i }).click();",
                    "">>
             ELSE IF HasSelector(step)
             THEN <<"    // " \o step.instruction.value,
                    "    await page.locator('"
                        \o convertSelector(step.selector.value)
                        \o "').click();",
                    "">>
             ELSE <<>>
        ELSE <<>>
    ELSE IF step.action = "extract" THEN
        <<"    // Data extraction: " \o InstructionText(step)>>
        \o (IF Truthy(step.result)
            THEN <<"    // Expected result: " \o JSONStringify(step.result),
                   "">>
            ELSE <<>>)
    ELSE IF step.action = "assert" THEN
        IF HasSelector(step)
        THEN <<"    await expect(page.locator('"
                   \o convertSelector(step.selector.value)
                   \o "')).toBeVisible();",
               "">>
        ELSE IF step.result.kind # "undefined"
        THEN <<"    // Assertion passed: " \o JSONStringify(step.result),
               "">>
        ELSE <<>>
    ELSE <<>>

RECURSIVE LogLines(_)
LogLines(executionLog) ==
    IF executionLog = <<>> THEN <<>>
    ELSE StepLines(Head(executionLog)) \o LogLines(Tail(executionLog))

TestOpening(test) ==
    "  test('" \o test.id \o " - " \o test.name \o "', async ({ page }) => {"

generateTestCase(result, test) ==
    <<TestOpening(test), "    // " \o test.description, "">>
    \o LogLines(result.executionLog)
    \o <<"  });", "">>

----------------------------------------------------------------------------
(* groupBy and generatePlaywrightCode, run-tests.ts:645-685, 784-793 *)

\* properties every object inherits: result[key] finds them before any
\* item was stored under key
ObjectPrototypeKeys ==
    {"constructor", "toString", "toLocaleString", "valueOf",
     "hasOwnProperty", "isPrototypeOf", "propertyIsEnumerable", "__proto__"}

\* testLibrary.templates.find(t => t.id === testId): its position, 0 if none
RECURSIVE FindIndex(_, _, _)
FindIndex(tests, testId, i) ==
    IF i > Len(tests) THEN 0
    ELSE IF tests[i].id = testId THEN i
    ELSE FindIndex(tests, testId, i + 1)

\* test?.category || 'unknown'
CategoryKey(r, tests) ==
    LET i == FindIndex(tests, r.testId, 1) IN
    IF i = 0 THEN "unknown"
    ELSE IF tests[i].category = "" THEN "unknown"
    ELSE tests[i].category

\* position of key among the own properties, 0 if it is not one
RECURSIVE KeyIndex(_, _, _)
KeyIndex(groups, key, i) ==
    IF i > Len(groups) THEN 0
    ELSE IF groups[i].key = key THEN i
    ELSE KeyIndex(groups, key, i + 1)

\* array.reduce of groupBy: groups holds the own properties in the order
\* they were created; thrown: push was called on an inherited property
RECURSIVE groupBy(_, _, _)
groupBy(array, tests, groups) ==
    IF array = <<>> THEN [thrown |-> FALSE, groups |-> groups]
    ELSE LET item == Head(array)
             key == CategoryKey(item, tests)
             k == KeyIndex(groups, key, 1)
         IN IF k = 0 /\ key \in ObjectPrototypeKeys
            THEN [thrown |-> TRUE, groups |-> groups]
            ELSE IF k = 0
            THEN groupBy(Tail(array), tests,
                         Append(groups, [key |-> key, items |-> <<item>>]))
            ELSE groupBy(Tail(array), tests,
                         [groups EXCEPT ![k].items = Append(@, item)])

Digits == "0123456789"

IsDigit(c) == \E d \in 1..10 : CharAt(Digits, d) = c

DigitValue(c) == (CHOOSE d \in 1..10 : CharAt(Digits, d) = c) - 1

\* a <= b for digit strings of one length
RECURSIVE DigitsLeq(_, _)
DigitsLeq(a, b) ==
    IF a = "" THEN TRUE
    ELSE IF DigitValue(CharAt(a, 1)) < DigitValue(CharAt(b, 1)) THEN TRUE
    ELSE IF DigitValue(CharAt(a, 1)) > DigitValue(CharAt(b, 1)) THEN FALSE
    ELSE DigitsLeq(SubSeq(a, 2, Len(a)), SubSeq(b, 2, Len(b)))

MaxArrayIndex == "4294967294"      \* 2^32 - 2

\* an integer index: the canonical decimal form of 0 .. 2^32 - 2
IsArrayIndex(key) ==
    /\ Len(key) >= 1
    /\ Len(key) <= Len(MaxArrayIndex)
    /\ \A i \in 1..Len(key) : IsDigit(CharAt(key, i))
    /\ (Len(key) > 1 => CharAt(key, 1) # "0")
    /\ (Len(key) = Len(MaxArrayIndex) => DigitsLeq(key, MaxArrayIndex))

\* the order of two integer indices: the shorter is the smaller
IndexLeq(a, b) ==
    \/ Len(a) < Len(b)
    \/ Len(a) = Len(b) /\ DigitsLeq(a, b)

\* the integer keys in ascending order
RECURSIVE Ascending(_)
Ascending(groups) ==
    IF groups = <<>> THEN <<>>
    ELSE LET m == CHOOSE i \in 1..Len(groups) :
                    \A j \in 1..Len(groups) :
                        IndexLeq(groups[i].key, groups[j].key)
         IN <<groups[m]>>
            \o Ascending(SubSeq(groups, 1, m - 1)
                         \o SubSeq(groups, m + 1, Len(groups)))

\* Object.entries: integer keys first, ascending, then the other keys in
\* the order they were created
ObjectEntries(groups) ==
    Ascending(SelectSeq(groups, LAMBDA g : IsArrayIndex(g.key)))
    \o SelectSeq(groups, LAMBDA g : ~IsArrayIndex(g.key))

\* categoryDefinitions of tests.json
categoryDefinitions ==
    [c \in {"core-product-info", "pricing", "add-to-cart"} |->
        IF c = "core-product-info" THEN "Core Product Information"
        ELSE IF c = "pricing" THEN "Pricing" ELSE "Add to Cart"]

\* testLibrary.categoryDefinitions[category] || category
CategoryName(category) ==
    IF category \in DOMAIN categoryDefinitions
    THEN categoryDefinitions[category] ELSE category

\* new Date().toISOString() in the first ten milliseconds of the epoch
toISOString(now) == "1970-01-01T00:00:00.00" \o ToString(now) \o "Z"

\* mutant of PassedTests: every result of the category
PassedTestsAll(categoryResults) == categoryResults

\* categoryResults.filter(r => r.status === 'pass')
PassedTests(categoryResults) ==
    SelectSeq(categoryResults, LAMBDA r : r.status = "pass")

\* the body of the inner for loop, from the first passed result on
RECURSIVE TestCasesFrom(_, _)
TestCasesFrom(passedTests, tests) ==
    IF passedTests = <<>> THEN <<>>
    ELSE LET result == Head(passedTests)
             i == FindIndex(tests, result.testId, 1)
         IN (IF i # 0 THEN generateTestCase(result, tests[i]) ELSE <<>>)
            \o TestCasesFrom(Tail(passedTests), tests)

\* mutant of TestCases: the generated tests in reverse order
TestCasesNewestFirst(passedTests, tests) ==
    TestCasesFrom([k \in 1..Len(passedTests) |->
                      passedTests[Len(passedTests) + 1 - k]], tests)

\* mutant of TestCases: only the first passed result is generated
TestCasesFirstOnly(passedTests, tests) ==
    TestCasesFrom(SubSeq(passedTests, 1, 1), tests)

\* the inner for loop: one generated test per passed result with an entry
TestCases(passedTests, tests) == TestCasesFrom(passedTests, tests)

DescribeOpening(category) ==
    "test.describe('" \o CategoryName(category) \o "', () => {"

\* the lines of one test.describe block
Suite(entry, tests, productUrlArg) ==
    <<DescribeOpening(entry.key),
      "  test.beforeEach(async ({ page }) => {",
      "    await page.goto('" \o productUrlArg \o "');",
      "    await page.waitForLoadState('networkidle');",
      "  });",
      "">>
    \o TestCases(PassedTests(entry.items), tests)
    \o <<"});", "">>

RECURSIVE Suites(_, _, _)
Suites(entries, tests, productUrlArg) ==
    IF entries = <<>> THEN <<>>
    ELSE Suite(Head(entries), tests, productUrlArg)
         \o Suites(Tail(entries), tests, productUrlArg)

\* thrown: the call throws; code: the lines of the text it returns
generatePlaywrightCode(resultList, tests, productUrlArg, now) ==
    LET testsByCategory == groupBy(resultList, tests, <<>>) IN
    IF testsByCategory.thrown THEN [thrown |-> TRUE, code |-> <<>>]
    ELSE [thrown |-> FALSE,
          code |->
            <<"// Generated Playwright tests from Stagehand execution",
              "// Generated on: " \o toISOString(now),
              "// Product URL: " \o productUrlArg,
              "",
              "import { test, expect } from '@playwright/test';",
              "">>
            \o Suites(ObjectEntries(testsByCategory.groups), tests,
                      productUrlArg)]

----------------------------------------------------------------------------
(* main, run-tests.ts:527-632 *)

Urls == {"", "https://shop.example/products/item"}

\* entries tests.json may hold; the ids are the ones the executor knows
LibraryPool ==
    {TestCase("pdp-title-visible", "core-product-info", "P0", PString("any")),
     TestCase("pdp-atc-works", "add-to-cart", "P0", PString("in_stock")),
     TestCase("pdp-compare-at-price-visible", "pricing", "P1",
              PArray(<<"on_sale">>)),
     TestCase("pdp-variant-selection-works", "variant-selection", "P1",
              PArray(<<"has_variants", "in_stock">>))}

\* catalogs: entries in any order, ids unique
Libraries ==
    {l \in SeqsUpTo(LibraryPool, MaxTests) :
        \A i, j \in 1..Len(l) : i # j => l[i].id # l[j].id}

MaxClock == 1          \* the milliseconds new Date() may show

Init ==
    /\ pc = "start"
    /\ productUrl \in Urls
    /\ templates = <<>>
    /\ extraction = NoExtraction
    /\ extractCalls = 0
    /\ capabilities = <<>>
    /\ applicable = <<>>
    /\ selectCalls = 0
    /\ loopIndex = 0
    /\ results = <<>>
    /\ pages = <<>>
    /\ executeCalls = 0
    /\ browser = "none"
    /\ clock = 0
    /\ scripts = <<>>
    /\ fatalCause = "none"
    /\ conversions = <<>>

\* what the test loop and the generator write
outputs == <<results, pages, executeCalls, clock, scripts>>

\* process.exit(1), from the usage check or from main().catch
Exit(cause) ==
    /\ pc' = "fatal"
    /\ fatalCause' = cause

\* mutant of CheckUrl: the run goes on without a URL
CheckUrlNoExit ==
    /\ pc = "start"
    /\ pc' = "setup"
    /\ UNCHANGED <<productUrl, conversions, templates, extraction, extractCalls,
                   capabilities, applicable, selectCalls, loopIndex, browser,
                   fatalCause, outputs>>

\* if (!productUrl) { ...; process.exit(1) }
CheckUrl ==
    /\ pc = "start"
    /\ IF productUrl = "" THEN Exit("usage")
       ELSE pc' = "setup" /\ UNCHANGED fatalCause
    /\ UNCHANGED <<productUrl, conversions, templates, extraction, extractCalls,
                   capabilities, applicable, selectCalls, loopIndex, browser,
                   outputs>>

\* stagehand.init(); page.goto(productUrl)
Setup ==
    /\ pc = "setup"
    /\ pc' = "load"
    /\ browser' = "open"
    /\ UNCHANGED <<productUrl, conversions, templates, extraction, extractCalls,
                   capabilities, applicable, selectCalls, loopIndex,
                   fatalCause, outputs>>

\* init rejects (no browser) or goto rejects (the browser stays open)
SetupFault ==
    /\ pc = "setup"
    /\ Exit("setup")
    /\ browser' \in {"none", "open"}
    /\ UNCHANGED <<productUrl, conversions, templates, extraction, extractCalls,
                   capabilities, applicable, selectCalls, loopIndex, outputs>>

\* const library = loadTests()
LoadTests ==
    /\ pc = "load"
    /\ \E library \in Libraries : templates' = library
    /\ pc' = "detect"
    /\ UNCHANGED <<productUrl, conversions, extraction, extractCalls, capabilities,
                   applicable, selectCalls, loopIndex, browser, fatalCause,
                   outputs>>

\* readFileSync or JSON.parse throws
LoadFault ==
    /\ pc = "load"
    /\ Exit("catalog")
    /\ UNCHANGED <<productUrl, conversions, templates, extraction, extractCalls,
                   capabilities, applicable, selectCalls, loopIndex, browser,
                   outputs>>

\* mutant of Detect: a second extract call after a faulted one
DetectRetry ==
    /\ pc = "detect"
    /\ \E outcome \in ExtractOutcomes :
         /\ extraction' = outcome
         /\ extractCalls' = IF outcome.fault = "none" THEN extractCalls + 1
                            ELSE extractCalls + 2
         /\ capabilities' = detectCapabilities(outcome).states
         /\ pc' = "select"
    /\ UNCHANGED <<productUrl, conversions, templates, applicable, selectCalls, loopIndex,
                   browser, fatalCause, outputs>>

\* const capabilities = await detectCapabilities(stagehand, page)
Detect ==
    /\ pc = "detect"
    /\ \E outcome \in ExtractOutcomes :
         LET detected == detectCapabilities(outcome) IN
         /\ extraction' = outcome
         /\ extractCalls' = extractCalls + 1
         /\ IF detected.thrown
            THEN Exit("detection") /\ UNCHANGED capabilities
            ELSE /\ capabilities' = detected.states
                 /\ pc' = "select"
                 /\ UNCHANGED fatalCause
    /\ UNCHANGED <<productUrl, conversions, templates, applicable, selectCalls, loopIndex,
                   browser, outputs>>

\* mutant of CallSelect: the catalog is sorted in place before filtering
CallSelectSorting ==
    /\ templates' = SelectSeq(templates, LAMBDA t : t.priority = "P0")
                    \o SelectSeq(templates, LAMBDA t : t.priority # "P0")
    /\ applicable' = selectApplicableTests(templates', capabilities)
    /\ selectCalls' = selectCalls + 1
    /\ UNCHANGED <<capabilities, extractCalls>>

\* one invocation selectApplicableTests(library.templates, capabilities):
\* filter, includes and every read their arrays and write none
CallSelect ==
    /\ applicable' = selectApplicableTests(templates, capabilities)
    /\ selectCalls' = selectCalls + 1
    /\ UNCHANGED <<templates, capabilities, extractCalls>>

\* const applicable = selectApplicableTests(...); then the for loop starts
SelectTests ==
    /\ pc = "select"
    /\ CallSelect
    /\ pc' = IF applicable' = <<>> THEN "generate" ELSE "execute"
    /\ UNCHANGED <<productUrl, conversions, extraction, loopIndex, browser, fatalCause,
                   outputs>>

\* mutant of ExecuteTest: the loop ends at the first result that is no pass
ExecuteTestStopsAtFault ==
    /\ pc = "execute"
    /\ loopIndex < Len(applicable)
    /\ \E page \in PagesFor(applicable[loopIndex + 1], FALSE) :
         CallExecute(applicable[loopIndex + 1], page)
    /\ loopIndex' = loopIndex + 1
    /\ pc' = IF loopIndex' < Len(applicable)
                /\ results'[loopIndex'].status = "pass"
             THEN "execute" ELSE "generate"
    /\ UNCHANGED <<productUrl, conversions, templates, extraction, extractCalls,
                   capabilities, applicable, selectCalls, browser, clock,
                   scripts, fatalCause>>

\* one iteration of for (const test of applicable): executeTest never
\* rejects, the result is pushed whatever its status
ExecuteTest ==
    /\ pc = "execute"
    /\ loopIndex < Len(applicable)
    /\ \E page \in PagesFor(applicable[loopIndex + 1], FALSE) :
         CallExecute(applicable[loopIndex + 1], page)
    /\ loopIndex' = loopIndex + 1
    /\ pc' = IF loopIndex' < Len(applicable) THEN "execute" ELSE "generate"
    /\ UNCHANGED <<productUrl, conversions, templates, extraction, extractCalls,
                   capabilities, applicable, selectCalls, browser, clock,
                   scripts, fatalCause>>

\* generatePlaywrightCode at the time the clock shows, writeFileSync, the
\* summary, stagehand.close()
Generate ==
    /\ pc = "generate"
    /\ ~groupBy(results, templates, <<>>).thrown
    /\ scripts' = Append(scripts,
                         generatePlaywrightCode(results, templates,
                                                productUrl, clock))
    /\ browser' = "closed"
    /\ pc' = "done"
    /\ UNCHANGED <<productUrl, conversions, templates, extraction, extractCalls,
                   capabilities, applicable, selectCalls, loopIndex, results,
                   pages, executeCalls, clock, fatalCause>>

\* generatePlaywrightCode, mkdirSync or writeFileSync throws
GenerateFault ==
    /\ pc = "generate"
    /\ Exit("output")
    /\ UNCHANGED <<productUrl, conversions, templates, extraction, extractCalls,
                   capabilities, applicable, selectCalls, loopIndex, browser,
                   outputs>>

Next ==
    \/ CheckUrl
    \/ Setup
    \/ SetupFault
    \/ LoadTests
    \/ LoadFault
    \/ Detect
    \/ SelectTests
    \/ ExecuteTest
    \/ Generate
    \/ GenerateFault

Spec == Init /\ [][Next]_vars

----------------------------------------------------------------------------
(* SelSpec: selectApplicableTests on every bounded catalog and token array *)

\* tokens of the capability arrays, in the order detectCapabilities pushes
TokenOrder == <<"in_stock", "has_variants", "on_sale", "any">>

\* one array per token set, the empty one included
TokenArrays ==
    {SelectSeq(TokenOrder, LAMBDA t : t \in S) : S \in SUBSET Range(TokenOrder)}

ListVocab == {"has_variants", "on_sale"}

ProductStates ==
    {PString(t) : t \in Range(TokenOrder)}
    \cup {PArray(l) : l \in SeqsUpTo(ListVocab, MaxList)}
    \cup {POther}

IdOf(i) == "t" \o ToString(i)

\* what a catalog entry is drawn from: a priority and a productState
Priorities == {"P0", "P1"}

\* the catalog whose i-th entry has the priority and productState c[i];
\* the id is the position, so unique
SelLibrary(c) ==
    [i \in DOMAIN c |-> TestCase(IdOf(i), "core-product-info",
                                 c[i][1], c[i][2])]

SelInit ==
    /\ pc = "select"
    /\ productUrl \in Urls \ {""}
    /\ \E k \in 0..MaxTests :
         \E c \in [1..k -> Priorities \X ProductStates] :
             templates = SelLibrary(c)
    /\ extraction = NoExtraction
    /\ extractCalls = 0
    /\ capabilities \in TokenArrays
    /\ applicable = <<>>
    /\ selectCalls = 0
    /\ loopIndex = 0
    /\ results = <<>>
    /\ pages = <<>>
    /\ executeCalls = 0
    /\ browser = "open"
    /\ clock = 0
    /\ scripts = <<>>
    /\ fatalCause = "none"
    /\ conversions = <<>>

\* one more invocation on the same arguments
SelInvoke ==
    /\ pc = "select"
    /\ selectCalls < MaxInvocations
    /\ CallSelect
    /\ UNCHANGED <<pc, productUrl, conversions, extraction, loopIndex, browser,
                   fatalCause, outputs>>

SelNext == SelInvoke

SelSpec == SelInit /\ [][SelNext]_vars

----------------------------------------------------------------------------
(* ExecSpec: executeTest on one catalog entry and every bounded page *)

ExecIds ==
    {"pdp-title-visible", "pdp-description-visible", "pdp-price-visible",
     "pdp-compare-at-price-visible", "pdp-variant-selector-visible",
     "pdp-variant-selection-works", "pdp-atc-button-visible-and-enabled",
     "pdp-atc-works", "pdp-main-image-visible", "pdp-image-gallery-works",
     "pdp-meta-title"}

\* every id under every category, one category without a procedure included
ExecTests ==
    {TestCase(id, category, "P0", PString("any")) :
        id \in ExecIds, category \in KnownCategories \cup {"seo"}}

ExecInit ==
    /\ pc = "execute"
    /\ productUrl \in Urls \ {""}
    /\ \E test \in ExecTests : templates = <<test>> /\ applicable = <<test>>
    /\ extraction = NoExtraction
    /\ extractCalls = 0
    /\ capabilities = <<"any">>
    /\ selectCalls = 0
    /\ loopIndex = 0
    /\ results = <<>>
    /\ pages = <<>>
    /\ executeCalls = 0
    /\ browser = "open"
    /\ clock = 0
    /\ scripts = <<>>
    /\ fatalCause = "none"
    /\ conversions = <<>>

\* executeTest(stagehand, page, test) on one page
ExecInvoke ==
    /\ pc = "execute"
    /\ executeCalls = 0
    /\ \E page \in PagesFor(applicable[1], TRUE) :
         CallExecute(applicable[1], page)
    /\ UNCHANGED <<pc, productUrl, conversions, templates, extraction, extractCalls,
                   capabilities, applicable, selectCalls, loopIndex, browser,
                   clock, scripts, fatalCause>>

ExecNext == ExecInvoke

ExecSpec == ExecInit /\ [][ExecNext]_vars

----------------------------------------------------------------------------
(* GenSpec: generatePlaywrightCode on bounded results and catalogs *)

MaxResults == 2

\* category names of catalog entries: one with a display name, one without,
\* one that is an integer index, one that every object inherits, none
GenCategories == {"pricing", "misc", "7", "constructor", ""}

GenCatalogs ==
    {<<TestCase("t1", c1, "P0", PString("any")),
       TestCase("t2", c2, "P1", PString("any"))>> :
        c1 \in GenCategories, c2 \in GenCategories}

\* a result as executeTest returns it for the catalog entry testId
GenResult(testId, status) ==
    [testId |-> testId, status |-> status, duration |-> 0,
     error |-> IF status = "pass" THEN Absent
               ELSE IF status = "fail"
               THEN Some("expect(received).toBe(expected)")
               ELSE Some("locator.click: Timeout 30000ms exceeded."),
     executionLog |->
        IF status = "error" THEN <<>>
        ELSE <<ExecutionStep("assert", Absent, Some("h1"),
                             RBool(status = "pass"))>>]

GenResults ==
    {GenResult(testId, status) :
        testId \in {"t1", "t2"}, status \in {"pass", "fail", "error"}}

GenInit ==
    /\ pc = "generate"
    /\ productUrl \in Urls \ {""}
    /\ templates \in GenCatalogs
    /\ results \in SeqsUpTo(GenResults, MaxResults)
    /\ extraction = NoExtraction
    /\ extractCalls = 0
    /\ capabilities = <<"any">>
    /\ applicable = <<>>
    /\ selectCalls = 0
    /\ loopIndex = 0
    /\ pages = <<>>
    /\ executeCalls = 0
    /\ browser = "open"
    /\ clock = 0
    /\ scripts = <<>>
    /\ fatalCause = "none"
    /\ conversions = <<>>

\* one call generatePlaywrightCode(results, library, productUrl) at the
\* time the clock shows, which never runs backwards
GenInvoke ==
    /\ pc = "generate"
    /\ Len(scripts) < MaxInvocations
    /\ \E now \in clock..MaxClock :
         /\ clock' = now
         /\ scripts' = Append(scripts,
                              generatePlaywrightCode(results, templates,
                                                     productUrl, now))
    /\ UNCHANGED <<pc, productUrl, conversions, templates, extraction, extractCalls,
                   capabilities, applicable, selectCalls, loopIndex, results,
                   pages, executeCalls, browser, fatalCause>>

GenNext == GenInvoke

GenSpec == GenInit /\ [][GenNext]_vars

-----------------------------------------------------------------------------
(* OrphanSpec: generatePlaywrightCode on results some of which name an id  *)
(* the catalog has no entry for                                            *)

\* the results of GenResults and results of the id t3, which no catalog of
\* GenCatalogs holds
OrphanResults ==
    GenResults \cup {GenResult("t3", status) : status \in {"pass", "fail", "error"}}

OrphanInit ==
    /\ pc = "generate"
    /\ productUrl \in Urls \ {""}
    /\ templates \in GenCatalogs
    /\ results \in SeqsUpTo(OrphanResults, MaxResults)
    /\ extraction = NoExtraction
    /\ extractCalls = 0
    /\ capabilities = <<"any">>
    /\ applicable = <<>>
    /\ selectCalls = 0
    /\ loopIndex = 0
    /\ pages = <<>>
    /\ executeCalls = 0
    /\ browser = "open"
    /\ clock = 0
    /\ scripts = <<>>
    /\ fatalCause = "none"
    /\ conversions = <<>>

\* one call generatePlaywrightCode(results, library, productUrl)
OrphanInvoke ==
    /\ pc = "generate"
    /\ scripts = <<>>
    /\ scripts' = <<generatePlaywrightCode(results, templates, productUrl,
                                           clock)>>
    /\ UNCHANGED <<pc, productUrl, conversions, templates, extraction,
                   extractCalls, capabilities, applicable, selectCalls,
                   loopIndex, results, pages, executeCalls, browser, clock,
                   fatalCause>>

OrphanNext == OrphanInvoke

OrphanSpec == OrphanInit /\ [][OrphanNext]_vars

----------------------------------------------------------------------------
(* ScenarioSpec: the catalog t1, t2, t3 from selection to generation *)

\* the scenario leaves the categories open; '' is an entry without one
ScenarioCategories == {"core-product-info", "pricing", ""}

ScenarioLibrary(c1, c2, c3) ==
    <<TestCase("t1", c1, "P0", PString("any")),
      TestCase("t2", c2, "P0", PString("in_stock")),
      TestCase("t3", c3, "P1", PArray(<<"has_variants", "on_sale">>))>>

StructuralSelectors == {"h1", ".product-title", "[data-product-price]"}

\* a pass whose log is one assert step bearing a structural selector
PassWithAssert(test, selector) ==
    [testId |-> test.id, status |-> "pass", duration |-> 0,
     error |-> Absent,
     executionLog |-> <<ExecutionStep("assert", Absent, Some(selector),
                                      RBool(TRUE))>>]

ScenarioInit ==
    /\ pc = "select"
    /\ productUrl \in Urls \ {""}
    /\ \E c1, c2, c3 \in ScenarioCategories :
         templates = ScenarioLibrary(c1, c2, c3)
    /\ extraction = NoExtraction
    /\ extractCalls = 1
    /\ capabilities = <<"in_stock", "has_variants", "any">>
    /\ applicable = <<>>
    /\ selectCalls = 0
    /\ loopIndex = 0
    /\ results = <<>>
    /\ pages = <<>>
    /\ executeCalls = 0
    /\ browser = "open"
    /\ clock = 0
    /\ scripts = <<>>
    /\ fatalCause = "none"
    /\ conversions = <<>>

ScenarioSelect ==
    /\ pc = "select"
    /\ CallSelect
    /\ pc' = IF applicable' = <<>> THEN "generate" ELSE "execute"
    /\ UNCHANGED <<productUrl, conversions, extraction, loopIndex, browser, fatalCause,
                   outputs>>

\* the loop of main, each test executing to pass as the scenario supposes
ScenarioExecute ==
    /\ pc = "execute"
    /\ loopIndex < Len(applicable)
    /\ \E selector \in StructuralSelectors :
         results' = Append(results,
                           PassWithAssert(applicable[loopIndex + 1], selector))
    /\ executeCalls' = executeCalls + 1
    /\ loopIndex' = loopIndex + 1
    /\ pc' = IF loopIndex' < Len(applicable) THEN "execute" ELSE "generate"
    /\ UNCHANGED <<productUrl, conversions, templates, extraction, extractCalls,
                   capabilities, applicable, selectCalls, pages, browser,
                   clock, scripts, fatalCause>>

ScenarioNext ==
    \/ ScenarioSelect
    \/ ScenarioExecute
    \/ Generate

ScenarioSpec == ScenarioInit /\ [][ScenarioNext]_vars

-----------------------------------------------------------------------------
(* ConvSpec: convertSelector on bounded selectors *)

MaxPredicates == 2

\* selectors in structural form, with and without quotes of either kind
StructuralInputs ==
    {"h1", ".product-title", "[class*=\"price\"]", "a[href='/cart']",
     "button:has-text(\"Add\")", "select[name*=\"variant\"]"}

\* how an AI-path selector starts
PathPrefixes == {"//div", "xpath=//div", "//main/button"}

\* one bracketed predicate of a path query: an attribute equality or a
\* contains() test on the text
Predicate(kind, attr, value, quote) ==
    [kind |-> kind, attr |-> attr, value |-> value, quote |-> quote]

Predicates ==
    {Predicate("equals", "data-testid", "buy", "'"),
     Predicate("equals", "class", "btn primary", "\""),
     Predicate("equals", "class", " lead", "'"),
     Predicate("equals", "id", "main", "\""),
     Predicate("equals", "name", "add", "'"),
     Predicate("contains", "text()", "Add", "'")}

PredicateText(p) ==
    IF p.kind = "equals"
    THEN "[@" \o p.attr \o "=" \o p.quote \o p.value \o p.quote \o "]"
    ELSE "[contains(" \o p.attr \o "," \o p.quote \o p.value \o p.quote
         \o ")]"

RECURSIVE PathText(_)
PathText(parts) ==
    IF parts = <<>> THEN ""
    ELSE PredicateText(Head(parts)) \o PathText(Tail(parts))

\* one call convertSelector(input)
Conversion(input, parts) ==
    [input |-> input, parts |-> parts, output |-> convertSelector(input)]

ConvInit ==
    /\ pc = "convert"
    /\ productUrl \in Urls \ {""}
    /\ templates = <<>>
    /\ results = <<>>
    /\ extraction = NoExtraction
    /\ extractCalls = 0
    /\ capabilities = <<"any">>
    /\ applicable = <<>>
    /\ selectCalls = 0
    /\ loopIndex = 0
    /\ pages = <<>>
    /\ executeCalls = 0
    /\ browser = "open"
    /\ clock = 0
    /\ scripts = <<>>
    /\ fatalCause = "none"
    /\ conversions = <<>>

\* convertSelector on a selector in structural form
ConvStructural ==
    /\ pc = "convert"
    /\ conversions = <<>>
    /\ \E input \in StructuralInputs :
         conversions' = <<Conversion(input, <<>>)>>
    /\ UNCHANGED <<pc, productUrl, templates, extraction, extractCalls,
                   capabilities, applicable, selectCalls, loopIndex, results,
                   pages, executeCalls, browser, clock, scripts, fatalCause>>

\* convertSelector on an AI-path selector
ConvPath ==
    /\ pc = "convert"
    /\ conversions = <<>>
    /\ \E prefix \in PathPrefixes, parts \in SeqsUpTo(Predicates, MaxPredicates) :
         conversions' = <<Conversion(prefix \o PathText(parts), parts)>>
    /\ UNCHANGED <<pc, productUrl, templates, extraction, extractCalls,
                   capabilities, applicable, selectCalls, loopIndex, results,
                   pages, executeCalls, browser, clock, scripts, fatalCause>>

ConvNext == ConvStructural \/ ConvPath

ConvSpec == ConvInit /\ [][ConvNext]_vars

-----------------------------------------------------------------------------
(* CaseSpec: generateTestCase on a pass result with one step of any shape *)

CaseActions == {"observe", "act", "extract", "assert"}

CaseInstructions ==
    {Absent, Some("click add to cart"), Some("Click Add To Cart"),
     Some("Click the size option"), Some("select variant option")}

CaseSelectors == {Absent, Some("h1"), Some("//button[@id='buy']")}

CaseResults == {RUndefined, RBool(TRUE), RBool(FALSE)}

CaseSteps ==
    {ExecutionStep(action, instruction, selector, result) :
        action \in CaseActions, instruction \in CaseInstructions,
        selector \in CaseSelectors, result \in CaseResults}

CaseInit ==
    /\ pc = "generate"
    /\ productUrl \in Urls \ {""}
    /\ templates = <<TestCase("t1", "pricing", "P0", PString("any"))>>
    /\ \E step \in CaseSteps :
         results = <<[testId |-> "t1", status |-> "pass", duration |-> 0,
                      error |-> Absent, executionLog |-> <<step>>]>>
    /\ extraction = NoExtraction
    /\ extractCalls = 0
    /\ capabilities = <<"any">>
    /\ applicable = <<>>
    /\ selectCalls = 0
    /\ loopIndex = 0
    /\ pages = <<>>
    /\ executeCalls = 0
    /\ browser = "open"
    /\ clock = 0
    /\ scripts = <<>>
    /\ fatalCause = "none"
    /\ conversions = <<>>

\* one call generateTestCase(result, test)
CaseInvoke ==
    /\ pc = "generate"
    /\ scripts = <<>>
    /\ scripts' = <<[thrown |-> FALSE,
                     code |-> generateTestCase(results[1], templates[1])]>>
    /\ UNCHANGED <<pc, productUrl, conversions, templates, extraction,
                   extractCalls, capabilities, applicable, selectCalls,
                   loopIndex, results, pages, executeCalls, browser, clock,
                   fatalCause>>

CaseNext == CaseInvoke

CaseSpec == CaseInit /\ [][CaseNext]_vars

----------------------------------------------------------------------------
(* Claims on selectApplicableTests (SelSpec) *)

TokenSet == Range(capabilities)

ProductStateOf(i) == templates[i].preconditions.productState

\* entry i of the catalog is in the output (ids are unique)
Selected(i) == \E j \in 1..Len(applicable) : applicable[j].id = templates[i].id

\* C1: an entry whose productState is a list is selected iff every token of
\* the list is in the token set (AND, never OR)
C1_ListConjunctive ==
    selectCalls >= 1 =>
        \A i \in 1..Len(templates) :
            ProductStateOf(i).kind = "array" =>
                (Selected(i) <=> Range(ProductStateOf(i).list) \subseteq TokenSet)

\* tokens {in_stock, has_variants, any}, list [has_variants, on_sale]: excluded
C1_Witness ==
    /\ selectCalls >= 1
    /\ capabilities = <<"in_stock", "has_variants", "any">>
    /\ \E i \in 1..Len(templates) :
         /\ ProductStateOf(i) = PArray(<<"has_variants", "on_sale">>)
         /\ ~Selected(i)

\* C2: an entry whose productState is "any" is selected for every token
\* set, the empty one and those without "any" included
C2_SentinelIncluded ==
    selectCalls >= 1 =>
        \A i \in 1..Len(templates) :
            ProductStateOf(i) = PString("any") => Selected(i)

C2_Witness ==
    /\ selectCalls >= 1
    /\ capabilities = <<>>
    /\ \E i \in 1..Len(templates) :
         ProductStateOf(i) = PString("any") /\ Selected(i)

\* C3: an entry whose productState is one token other than "any" is
\* selected iff the token is in the token set
C3_SingleToken ==
    selectCalls >= 1 =>
        \A i \in 1..Len(templates) :
            (ProductStateOf(i).kind = "string" /\ ProductStateOf(i).str # "any")
                => (Selected(i) <=> ProductStateOf(i).str \in TokenSet)

C3_Witness ==
    /\ selectCalls >= 1
    /\ \E i, k \in 1..Len(templates) :
         /\ ProductStateOf(i) = PString("in_stock") /\ Selected(i)
         /\ ProductStateOf(k) = PString("on_sale") /\ ~Selected(k)

\* C4: the output is a subsequence of the catalog: some strictly increasing
\* map of output positions to catalog positions carries each output entry
\* to the same catalog entry, whatever the priorities
C4_Subsequence ==
    selectCalls >= 1 =>
        /\ Len(applicable) <= Len(templates)
        /\ \E f \in [1..Len(applicable) -> 1..Len(templates)] :
             /\ \A j \in 1..Len(applicable) : applicable[j] = templates[f[j]]
             /\ \A j, k \in 1..Len(applicable) : j < k => f[j] < f[k]

\* a P1 entry selected ahead of a P0 entry
C4_Witness ==
    /\ selectCalls >= 1
    /\ Len(applicable) >= 2
    /\ applicable[1].priority = "P1"
    /\ applicable[2].priority = "P0"

----------------------------------------------------------------------------
(* Claims on detectCapabilities and main (Spec) *)

\* detectCapabilities has returned
Detected == extraction.fault # "pending" /\ fatalCause # "detection"

Inventory == {"in_stock", "out_of_stock"}

\* C6: the token set never holds both in_stock and out_of_stock
C6_MutualExclusivity ==
    Detected => ~(Inventory \subseteq TokenSet)

\* C7: the token set holds 'any' on the success path and on the fault path
C7_AlwaysAny ==
    extraction.fault # "pending" => "any" \in TokenSet

C7_Witness ==
    /\ pc = "select"
    /\ extraction.fault = "none"
    /\ ~extraction.result.inStock
    /\ extraction.result.additionalStates = <<"pre_order">>
    /\ "any" \in TokenSet

C9_FaultDegrades ==
    (extraction.fault \in ExtractFaults) =>
        /\ fatalCause # "detection"
        /\ pc \in {"select", "execute", "generate", "done", "fatal"}
        /\ pc = "fatal" => fatalCause = "output"
        /\ capabilities = <<"any">>
        /\ pc \in {"generate", "done"} =>
               /\ applicable = selectApplicableTests(templates, <<"any">>)
               /\ Len(results) = Len(applicable)

C9_Witness ==
    /\ extraction.fault = "timeout"
    /\ pc = "done"
    /\ Len(results) >= 1

\* C10: no extract call before detection, exactly one from detection on,
\* through selection, execution and generation
C10_ExtractOnce ==
    /\ pc \in {"start", "setup", "load", "detect"} => extractCalls = 0
    /\ pc \in {"select", "execute", "generate", "done"} => extractCalls = 1
    /\ extraction.fault # "pending" => extractCalls = 1

C10_Witness ==
    /\ pc = "done"
    /\ extractCalls = 1
    /\ Len(results) = MaxTests

----------------------------------------------------------------------------
(* Claims on executeTest (ExecSpec) *)

\* the operations call i went through
OpsOf(i) == Dispatch(applicable[1], pages[i])

\* operation o throws on this page
Throws(o, page) ==
    \/ o.op = "await" /\ page.faultAt = o.phase
    \/ o.op = "expect" /\ ~o.ok

\* position of the operation of call i that throws, 0 if none does
FirstThrow(i) ==
    IF \E k \in 1..Len(OpsOf(i)) : Throws(OpsOf(i)[k], pages[i])
    THEN CHOOSE k \in 1..Len(OpsOf(i)) :
            /\ Throws(OpsOf(i)[k], pages[i])
            /\ \A j \in 1..(k - 1) : ~Throws(OpsOf(i)[j], pages[i])
    ELSE 0

\* the fault of call i is a mismatch thrown by expect
AssertionMismatch(i) ==
    FirstThrow(i) # 0 /\ OpsOf(i)[FirstThrow(i)].op = "expect"

\* the steps call i pushed before it threw
StepsBefore(i) ==
    LET pushed == SelectSeq(SubSeq(OpsOf(i), 1, FirstThrow(i) - 1),
                            LAMBDA o : o.op = "push")
    IN [k \in 1..Len(pushed) |-> pushed[k].step]

\* C11: a caught fault is classified fail iff it is an assertion mismatch,
\* whatever the message of the fault is
C11_FailIffAssertion ==
    \A i \in 1..Len(results) :
        FirstThrow(i) # 0 =>
            (results[i].status = "fail" <=> AssertionMismatch(i))

\* C12: the error field of a result is present iff its status is not pass
C12_ErrorIffNotPass ==
    \A i \in 1..Len(results) :
        results[i].error.present <=> results[i].status # "pass"

\* a fault without a message still yields an error field
C12_Witness ==
    /\ Len(results) = 1
    /\ FirstThrow(1) # 0
    /\ pages[1].fault.message = ""
    /\ OpsOf(1)[FirstThrow(1)].op = "await"
    /\ results[1].status = "error"
    /\ results[1].error = Some("Error")

\* C13: every fault thrown during dispatch ends in a returned result with
\* status fail or error, the steps pushed before the fault in push order,
\* and the elapsed time
C13_FaultCaught ==
    /\ Len(results) = executeCalls
    /\ \A i \in 1..Len(results) :
         FirstThrow(i) # 0 =>
            /\ results[i].status \in {"fail", "error"}
            /\ results[i].executionLog = StepsBefore(i)
            /\ results[i].duration = pages[i].elapsed

\* a page call rejects after a step was pushed
C13_Witness ==
    /\ Len(results) = 1
    /\ FirstThrow(1) # 0
    /\ pages[1].faultAt = 2
    /\ Len(results[1].executionLog) >= 1
    /\ results[1].executionLog = StepsBefore(1)
    /\ results[1].duration = MaxElapsed

----------------------------------------------------------------------------
(* Claims on generatePlaywrightCode (GenSpec, ScenarioSpec) *)

IsSuiteLine(line) == StartsWith(line, "test.describe('")

IsProcedureLine(line) == StartsWith(line, "  test('")

SuiteLines(code) == SelectSeq(code, IsSuiteLine)

ProcedureLines(code) == SelectSeq(code, IsProcedureLine)

\* the scripts that were returned
Returned == {i \in 1..Len(scripts) : ~scripts[i].thrown}

HasEntry(r) == FindIndex(templates, r.testId, 1) # 0

EntryOf(r) == templates[FindIndex(templates, r.testId, 1)]

\* the category keys of the results, each at its first occurrence
RECURSIVE FirstOccurrences(_, _)
FirstOccurrences(keys, seen) ==
    IF keys = <<>> THEN <<>>
    ELSE IF Head(keys) \in seen THEN FirstOccurrences(Tail(keys), seen)
    ELSE <<Head(keys)>>
         \o FirstOccurrences(Tail(keys), seen \cup {Head(keys)})

ResultKeys == [j \in 1..Len(results) |-> CategoryKey(results[j], templates)]

\* the lines of the suite block of category key, <<>> if there is none
Block(code, key) ==
    IF \E d \in 1..Len(code) : code[d] = DescribeOpening(key)
    THEN LET d == CHOOSE d \in 1..Len(code) :
                    /\ code[d] = DescribeOpening(key)
                    /\ \A k \in 1..(d - 1) : code[k] # DescribeOpening(key)
             later == {k \in (d + 1)..Len(code) : IsSuiteLine(code[k])}
             end == IF later = {} THEN Len(code)
                    ELSE (CHOOSE k \in later : \A m \in later : k <= m) - 1
         IN SubSeq(code, d, end)
    ELSE <<>>

\* the pass results of category key, in input order
PassedOf(key) ==
    SelectSeq(results,
              LAMBDA r : r.status = "pass" /\ CategoryKey(r, templates) = key)

\* C14: every procedure of a returned script is the procedure of a result
\* with status pass; none is emitted for a fail or error result
C14_OnlyPassEmitted ==
    \A i \in Returned :
        LET lines == ProcedureLines(scripts[i].code) IN
        /\ \A k \in 1..Len(lines) :
             \E j \in 1..Len(results) :
                /\ results[j].status = "pass"
                /\ HasEntry(results[j])
                /\ lines[k] = TestOpening(EntryOf(results[j]))
        /\ \A n \in 1..Len(templates) :
             Cardinality({k \in 1..Len(lines) :
                            lines[k] = TestOpening(templates[n])})
                <= Cardinality({j \in 1..Len(results) :
                                  /\ results[j].status = "pass"
                                  /\ results[j].testId = templates[n].id})

\* a pass and a fail result of catalog entries, one procedure
C14_Witness ==
    /\ Returned # {}
    /\ \E j, k \in 1..Len(results) :
         /\ results[j].status = "pass" /\ HasEntry(results[j])
         /\ results[k].status = "fail" /\ HasEntry(results[k])
         /\ results[j].testId # results[k].testId
    /\ \A i \in Returned : Len(ProcedureLines(scripts[i].code)) = 1

\* C15: a script is returned for every set of category names, with one
\* suite per category, the suites in the order in which the categories
\* first occur in the results
C15_SuitesInFirstOccurrenceOrder ==
    \A i \in 1..Len(scripts) :
        /\ ~scripts[i].thrown
        /\ SuiteLines(scripts[i].code)
             = [k \in 1..Len(FirstOccurrences(ResultKeys, {})) |->
                    DescribeOpening(FirstOccurrences(ResultKeys, {})[k])]

\* C16: the suite of a category holds exactly one procedure for each pass
\* result of the category, in the order of the results
C16_OneProcedurePerPass ==
    \A i \in Returned :
        \A key \in Range(ResultKeys) :
            /\ Block(scripts[i].code, key) # <<>>
            /\ ProcedureLines(Block(scripts[i].code, key))
                 = [k \in 1..Len(PassedOf(key)) |->
                        TestOpening(EntryOf(PassedOf(key)[k]))]

\* two pass results of one category, their procedures in input order
C16_Witness ==
    /\ Returned # {}
    /\ Len(results) >= 2
    /\ results[1].status = "pass" /\ results[2].status = "pass"
    /\ results[1].testId # results[2].testId
    /\ ResultKeys[1] = ResultKeys[2]
    /\ \A i \in Returned :
         ProcedureLines(Block(scripts[i].code, ResultKeys[1]))
            = <<TestOpening(EntryOf(results[1])),
                TestOpening(EntryOf(results[2]))>>

\* C20: the invocations on the same results, catalog and URL return the
\* same text, whenever they are made
C20_Deterministic ==
    \A i, j \in 1..Len(scripts) : scripts[i] = scripts[j]

\* the selection of the scenario: t1 and t2, in that order, not t3
ScenarioSelection ==
    selectCalls >= 1 =>
        /\ Len(applicable) = 2
        /\ applicable[1].id = "t1"
        /\ applicable[2].id = "t2"

\* two procedures, of t1 then t2, in one suite
OneSuiteTwoProcedures(code) ==
    /\ Len(SuiteLines(code)) = 1
    /\ ProcedureLines(code)
         = <<TestOpening(templates[1]), TestOpening(templates[2])>>

----------------------------------------------------------------------------
(* Claims on main (Spec) *)

\* C18: each selected test is attempted once, in selection order: at every
\* point of the loop the results are those of the tests before loopIndex,
\* one executeTest call each, and when the loop has ended there is one
\* result per selected test, whatever the statuses are
C18_OneAttemptEach ==
    /\ executeCalls = Len(results)
    /\ Len(results) = loopIndex
    /\ Len(results) <= Len(applicable)
    /\ \A i \in 1..Len(results) : results[i].testId = applicable[i].id
    /\ pc \in {"generate", "done"} => Len(results) = Len(applicable)
    /\ \A i, j \in 1..Len(results) :
         i < j => FindIndex(templates, results[i].testId, 1)
                    < FindIndex(templates, results[j].testId, 1)

\* the loop has ended after a first test that did not pass and a later one
C18_Witness ==
    /\ pc = "done"
    /\ Len(applicable) = MaxTests
    /\ Len(results) = MaxTests
    /\ results[1].status # "pass"
    /\ results[MaxTests].status = "pass"
    /\ executeCalls = MaxTests

\* C19: without a URL the run exits at once with a non-zero code and no
\* step of the pipeline runs; when loading the catalog faults the run exits
\* with a non-zero code and no test is executed
C19_FatalInputs ==
    /\ productUrl = "" =>
         /\ pc \in {"start", "fatal"}
         /\ pc = "fatal" => fatalCause = "usage"
         /\ browser = "none"
         /\ templates = <<>>
         /\ extractCalls = 0
         /\ selectCalls = 0
         /\ executeCalls = 0
         /\ results = <<>>
         /\ scripts = <<>>
    /\ fatalCause = "catalog" =>
         /\ pc = "fatal"
         /\ executeCalls = 0
         /\ results = <<>>
         /\ scripts = <<>>

\* the exit of the usage check
C19_Witness ==
    /\ pc = "fatal"
    /\ fatalCause = "usage"
    /\ productUrl = ""
    /\ browser = "none"

-----------------------------------------------------------------------------
(* Claims on the category procedures (ExecSpec) *)

\* the ids each category procedure has a branch for
HandSpecified(category) ==
    IF category = "core-product-info"
    THEN {"pdp-title-visible", "pdp-description-visible"}
    ELSE IF category = "pricing"
    THEN {"pdp-price-visible", "pdp-compare-at-price-visible"}
    ELSE IF category = "variant-selection"
    THEN {"pdp-variant-selector-visible", "pdp-variant-selection-works"}
    ELSE IF category = "add-to-cart"
    THEN {"pdp-atc-button-visible-and-enabled", "pdp-atc-works"}
    ELSE IF category = "product-media"
    THEN {"pdp-main-image-visible", "pdp-image-gallery-works"}
    ELSE {}

\* C23: an entry of a category with a procedure whose id the procedure does
\* not know passes with an empty log, no page call made; an entry of any
\* other category runs the generic check, which records one assert step
\* "generic test: <name>" carrying whether the body is visible and passes
\* iff it is; when the page call of the generic check throws, the result is
\* not a pass and its log is empty
C23_SilentPassOrGeneric ==
    \A i \in 1..Len(results) :
        LET test == applicable[1]
            r == results[i]
        IN /\ test.category \in KnownCategories
              /\ test.id \notin HandSpecified(test.category)
              => r.status = "pass" /\ r.executionLog = <<>>
           /\ test.category \notin KnownCategories /\ pages[i].faultAt = 0
              => /\ Len(r.executionLog) = 1
                 /\ r.executionLog[1].action = "assert"
                 /\ r.executionLog[1].instruction
                        = Some("generic test: " \o test.name)
                 /\ r.executionLog[1].result = RBool(pages[i].isVisible)
                 /\ r.status = (IF pages[i].isVisible THEN "pass" ELSE "fail")
           /\ test.category \notin KnownCategories /\ pages[i].faultAt # 0
              => r.status # "pass" /\ r.executionLog = <<>>

\* a pricing entry with an id testPricing has no branch for has passed
C23_Witness ==
    /\ Len(results) = 1
    /\ applicable[1].category = "pricing"
    /\ applicable[1].id = "pdp-meta-title"
    /\ results[1].status = "pass"
    /\ results[1].executionLog = <<>>

\* C24: no result reported as pass carries an assert step whose recorded
\* result is false
C24_FalseConditionNeverPass ==
    \A i \in 1..Len(results) :
        results[i].status = "pass" =>
            \A k \in 1..Len(results[i].executionLog) :
                results[i].executionLog[k].action = "assert"
                => results[i].executionLog[k].result # RBool(FALSE)

\* the selector recorded when no candidate is visible
DefaultSelector(test) ==
    IF test.id = "pdp-title-visible" THEN "h1"
    ELSE IF test.id = "pdp-description-visible" THEN ".product-description"
    ELSE IF test.id = "pdp-price-visible" THEN "[class*=\"price\"]"
    ELSE IF test.id = "pdp-compare-at-price-visible"
    THEN "[class*=\"compare\"]"
    ELSE IF test.id = "pdp-variant-selector-visible"
    THEN "select[name*=\"variant\"]"
    ELSE IF test.id = "pdp-atc-works" THEN "[href*=\"cart\"]:visible"
    ELSE ".product__media img"

\* the positions of the candidates of the entry that are visible on the page
VisiblePositions(test, page) ==
    {k \in 1..Len(CandidatesOf(test)) : CandidatesOf(test)[k] \in page.visible}

\* C25: a step a candidate walk records carries the visible candidate that
\* stands first in the list with result true, or, when no candidate is
\* visible, the default selector of the check with result false
C25_FirstVisibleCandidate ==
    \A i \in 1..Len(results) :
        LET test == applicable[1]
            at == VisiblePositions(test, pages[i])
        IN CandidatesOf(test) # <<>> =>
            \A k \in 1..Len(results[i].executionLog) :
                LET step == results[i].executionLog[k]
                IN step.selector.present =>
                    IF at = {}
                    THEN /\ step.selector = Some(DefaultSelector(test))
                         /\ step.result = RBool(FALSE)
                    ELSE /\ \E p \in at :
                              /\ \A q \in at : p <= q
                              /\ step.selector = Some(CandidatesOf(test)[p])
                         /\ step.result = RBool(TRUE)

\* two candidates are visible and the step carries the earlier one
C25_Witness ==
    /\ Len(results) = 1
    /\ Cardinality(VisiblePositions(applicable[1], pages[1])) = 2
    /\ 1 \notin VisiblePositions(applicable[1], pages[1])
    /\ \E k \in 1..Len(results[1].executionLog) :
          results[1].executionLog[k].selector
              = Some(CandidatesOf(applicable[1])[2])

\* the six checks that assert the visibility of what their walk found
VisibilityChecks ==
    {"pdp-title-visible", "pdp-description-visible", "pdp-price-visible",
     "pdp-compare-at-price-visible", "pdp-variant-selector-visible",
     "pdp-main-image-visible"}

\* call i ran a visibility check on a page that shows none of its candidates
\* and answers every call
NoCandidateVisible(i) ==
    /\ applicable[1].id \in VisibilityChecks
    /\ CandidatesOf(applicable[1]) # <<>>
    /\ VisiblePositions(applicable[1], pages[i]) = {}
    /\ pages[i].faultAt = 0

\* C30: a visibility check that finds no visible candidate is reported as
\* fail with exactly one step in its log, whose result is false
C30_StepBeforeAssertion ==
    \A i \in 1..Len(results) :
        NoCandidateVisible(i) =>
            /\ results[i].status = "fail"
            /\ Len(results[i].executionLog) = 1
            /\ results[i].executionLog[1].result = RBool(FALSE)

\* the variant selector check found nothing and failed with its step
C30_Witness ==
    /\ Len(results) = 1
    /\ applicable[1].id = "pdp-variant-selector-visible"
    /\ NoCandidateVisible(1)
    /\ results[1].status = "fail"
    /\ Len(results[1].executionLog) = 1

-----------------------------------------------------------------------------
(* Claims on convertSelector (ConvSpec) *)

\* the input of the call is in structural form
IsStructural(c) ==
    ~StartsWith(c.input, "//") /\ ~StartsWith(c.input, "xpath=")

\* the number of quotes among the first i characters of s
QuotesUpTo(s, i) == Cardinality({k \in 1..i : IsQuote(CharAt(s, k))})

\* out is s with one backslash put before each quote and nothing else changed
EscapedForm(out, s) ==
    /\ Len(out) = Len(s) + QuotesUpTo(s, Len(s))
    /\ \A i \in 1..Len(s) :
          /\ CharAt(out, i + QuotesUpTo(s, i)) = CharAt(s, i)
          /\ IsQuote(CharAt(s, i))
             => CharAt(out, i + QuotesUpTo(s, i) - 1) = "\\"

\* C26: a selector in structural form is returned with a backslash before
\* each quote and no other change; one without a quote is returned as it is
C26_StructuralPassThrough ==
    \A k \in 1..Len(conversions) :
        LET c == conversions[k]
        IN IsStructural(c) =>
            /\ EscapedForm(c.output, c.input)
            /\ QuotesUpTo(c.input, Len(c.input)) = 0 => c.output = c.input

\* a structural selector with quotes has been converted
C26_Witness ==
    /\ Len(conversions) = 1
    /\ IsStructural(conversions[1])
    /\ conversions[1].input = "a[href='/cart']"
    /\ conversions[1].output # conversions[1].input

\* positions of the equality predicates on attr the path was written from
EqualitiesOn(c, attr) ==
    {k \in 1..Len(c.parts) :
        c.parts[k].kind = "equals" /\ c.parts[k].attr = attr}

\* the value of the first equality predicate on attr
FirstValue(c, attr) ==
    c.parts[CHOOSE k \in EqualitiesOn(c, attr) :
                \A j \in EqualitiesOn(c, attr) : k <= j].value

\* the first token of a class list: what stands between the leading spaces
\* and the next space
FirstClassToken(value) ==
    LET inked == {i \in 1..Len(value) : CharAt(value, i) # " "}
    IN IF inked = {} THEN ""
       ELSE LET start == CHOOSE i \in inked : \A j \in inked : i <= j
                stops == {i \in start..Len(value) : CharAt(value, i) = " "}
                stop == IF stops = {} THEN Len(value) + 1
                        ELSE CHOOSE i \in stops : \A j \in stops : i <= j
            IN SubSeq(value, start, stop - 1)

\* C27: an AI-path selector with a data-testid equality becomes the
\* attribute selector of its value, whatever else it carries; otherwise one
\* with a class equality becomes "." and the first class token; otherwise
\* one with an id equality becomes "#" and the id
C27_RulePriority ==
    \A k \in 1..Len(conversions) :
        LET c == conversions[k]
        IN ~IsStructural(c) =>
            IF EqualitiesOn(c, "data-testid") # {}
            THEN c.output
                    = "[data-testid=\"" \o FirstValue(c, "data-testid") \o "\"]"
            ELSE IF EqualitiesOn(c, "class") # {}
            THEN c.output = "." \o FirstClassToken(FirstValue(c, "class"))
            ELSE IF EqualitiesOn(c, "id") # {}
            THEN c.output = "#" \o FirstValue(c, "id")
            ELSE TRUE

\* the path carries no equality on data-testid, class or id
NoRuleApplies(c) ==
    /\ ~IsStructural(c)
    /\ \A attr \in {"data-testid", "class", "id"} : EqualitiesOn(c, attr) = {}

Marker == "\" /* TODO: Convert XPath to CSS */"

\* the path query of the input: the input without a leading xpath=
PathQuery(c) ==
    IF StartsWith(c.input, "xpath=") THEN SubSeq(c.input, 7, Len(c.input))
    ELSE c.input

\* C28 as stated: a path no rule applies to is returned as the input itself
\* followed by the marker
C28_FallbackVerbatim ==
    \A k \in 1..Len(conversions) :
        NoRuleApplies(conversions[k]) =>
            conversions[k].output = conversions[k].input \o Marker

\* C28 amended: a path no rule applies to is returned as its path query,
\* a backslash put before each quote, followed by the marker
C28_FallbackEscaped ==
    \A k \in 1..Len(conversions) :
        LET c == conversions[k]
            cut == Len(c.output) - Len(Marker)
        IN NoRuleApplies(c) =>
            /\ cut >= 0
            /\ SubSeq(c.output, cut + 1, Len(c.output)) = Marker
            /\ EscapedForm(SubSeq(c.output, 1, cut), PathQuery(c))

\* a path with a quoted contains() test and an xpath= prefix has fallen back
C28_Witness ==
    /\ Len(conversions) = 1
    /\ NoRuleApplies(conversions[1])
    /\ conversions[1].input = "xpath=//div[contains(text(),'Add')]"
    /\ conversions[1].output
          = "//div[contains(text(),\\'Add\\')]" \o Marker

-----------------------------------------------------------------------------
(* Claims on generateTestCase (CaseSpec) *)

\* the step of the result the procedure was generated from
TheStep == results[1].executionLog[1]

\* the lines between the opening of the procedure and its closing
Body(code) == SubSeq(code, 4, Len(code) - 2)

\* a line that is neither blank nor a comment
Executable(line) == line # "" /\ ~StartsWith(line, "    //")

ExecutableLines(code) == SelectSeq(Body(code), Executable)

\* C21: an assert step with a selector becomes one visibility assertion on
\* the converted selector; one with no selector and a recorded result
\* becomes one comment naming the result and no executable line; one with
\* neither becomes nothing
C21_AssertStep ==
    \A k \in 1..Len(scripts) :
        TheStep.action = "assert" =>
            IF TheStep.selector.present
            THEN Body(scripts[k].code)
                    = <<"    await expect(page.locator('"
                            \o convertSelector(TheStep.selector.value)
                            \o "')).toBeVisible();",
                        "">>
            ELSE IF TheStep.result # RUndefined
            THEN Body(scripts[k].code)
                    = <<"    // Assertion passed: "
                            \o (IF TheStep.result.bool THEN "true" ELSE "false"),
                        "">>
            ELSE Body(scripts[k].code) = <<>>

\* an assert step with the result false and no selector became a comment
C21_Witness ==
    /\ Len(scripts) = 1
    /\ TheStep.action = "assert"
    /\ ~TheStep.selector.present
    /\ TheStep.result = RBool(FALSE)
    /\ Body(scripts[1].code) = <<"    // Assertion passed: false", "">>

\* the instructions of CaseInstructions that denote a click, and those among
\* them that are the add-to-cart click
ClickInstructions ==
    {Some("click add to cart"), Some("Click Add To Cart"),
     Some("Click the size option")}

AddToCartInstructions == {Some("click add to cart"), Some("Click Add To Cart")}

\* C22: an act step whose instruction denotes a click becomes exactly one
\* click: on the role button for the add-to-cart click whatever selector is
\* recorded, on the converted recorded selector otherwise
C22_ClickStep ==
    \A k \in 1..Len(scripts) :
        TheStep.action = "act" /\ TheStep.instruction \in ClickInstructions =>
            ExecutableLines(scripts[k].code)
                = <<IF TheStep.instruction \in AddToCartInstructions
                    THEN "    await page.getByRole('button', { name: /add to cart/i }).click();"
                    ELSE "    await page.locator('"
                             \o convertSelector(TheStep.selector.value)
                             \o "').click();">>

-----------------------------------------------------------------------------
(* Claims on the suites of results without a catalog entry (OrphanSpec) *)

\* the category a result is grouped under: that of its catalog entry, or
\* 'unknown' when it has no entry or the entry names no category
CategoryOfResult(r) ==
    IF HasEntry(r) /\ EntryOf(r).category # "" THEN EntryOf(r).category
    ELSE "unknown"

\* the block opens with the suite line and the shared setup
HasSharedSetup(block) ==
    /\ Len(block) >= 5
    /\ SubSeq(block, 2, 5)
         = <<"  test.beforeEach(async ({ page }) => {",
             "    await page.goto('" \o productUrl \o "');",
             "    await page.waitForLoadState('networkidle');",
             "  });">>

\* C29: for all results a script is returned that has a suite block with
\* the shared setup for the category of every result, whatever its status;
\* the block of a category without a pass result holds no procedure; and
\* when a result has no catalog entry, the block 'unknown' holds none
C29_SuitePerCategory ==
    \A i \in 1..Len(scripts) :
        /\ ~scripts[i].thrown
        /\ \A j \in 1..Len(results) :
             LET block == Block(scripts[i].code, CategoryOfResult(results[j]))
             IN /\ HasSharedSetup(block)
                /\ (\A k \in 1..Len(results) :
                       CategoryOfResult(results[k]) = CategoryOfResult(results[j])
                       => results[k].status # "pass")
                   => ProcedureLines(block) = <<>>
        /\ (\E j \in 1..Len(results) : ~HasEntry(results[j]))
           => ProcedureLines(Block(scripts[i].code, "unknown")) = <<>>

====
